---- MODULE Spec2Model ----
(***************************************************************************)
(* Model of the streaming CSV import of the contacts manager backend:      *)
(* ContactImporter.import (src/application/contact-importer.ts) with its   *)
(* two stream stages ContactValidator and BatchProcessor, and the retry    *)
(* loop of PostgresContactRepository.saveMany that every batch goes        *)
(* through.                                                                *)
(*                                                                         *)
(* The input file is produced line by line: every action that reads a line *)
(* draws it from the set NextLines.  A line is a tuple of cells, a cell is *)
(* a tuple of one-character strings.  The contacts table is the set db;    *)
(* PostgreSQL is modelled by what a committed INSERT ... ON CONFLICT does  *)
(* to it.  Wall-clock time (startTime, processingTimeMs) and the log       *)
(* output are not modelled; the retry delays are recorded in SpecSave.     *)
(*                                                                         *)
(* Spec       one import of a file of any lines, row by row                *)
(* SpecLong   one import of many well-formed rows, batch by batch          *)
(* SpecTwice  one short file imported twice into the same table            *)
(* SpecRepo   saveMany called directly, one batch after the other          *)
(* SpecPaging one GET /contacts request                                    *)
(* SpecPause  one import by the pause/resume importer                      *)
(* SpecSave   one call of saveMany, statement by statement                 *)
(* SpecExecutor  one call of saveMany of the older executors               *)
(* SpecSchema one import of a few rows that probe the schema               *)
(* SpecUpload one POST /contacts/upload, from the start of the import      *)
(***************************************************************************)
EXTENDS Integers, Sequences, FiniteSets, TLC

VARIABLES
    src,          \* position of the row source / csv parsers
    fileHeader,   \* first line of the file, the one the header pass parses
    headers,      \* header names the data parser builds its rows with
    state,        \* ImportState
    buffer,       \* BatchProcessor.buffer
    queue,        \* contacts validated but not yet taken by BatchProcessor
    bp,           \* BatchProcessor: idle, saving, finalSaving, finished
    batch,        \* processBatch: the batch handed to saveContacts
    startIdx,     \* saveMany: start of the current chunk
    retryCount,   \* saveMany: retryCount of the current chunk
    result,       \* value import() resolved with, NoResult before
    linesRead,    \* history: number of lines of the file read so far
    fileGood,     \* history: data lines the schema accepts under fileHeader
    fileBad,      \* history: data lines the schema rejects under fileHeader
    handed,       \* history: sizes of the batches handed to saveContacts
    committed,    \* history: numbers of the batches saveContacts returned for
    thrown,       \* history: batch number :> message saveContacts threw
    faulted,      \* history: some write of this import failed
    db,           \* the contacts table: one record per email
    log,          \* history: the chunks committed, in commit order
    file,         \* the lines of the file when they are fixed in advance
    first,        \* history: what an earlier import of the file left
    http,         \* a request of the controller and its response
    pr,           \* the pause/resume importer: importFromCsv and its handlers
    tx,           \* saveMany and saveBatch taken statement by statement
    ex            \* the per-record executor: saveMany with processBatches

vars == <<src, fileHeader, headers, state, buffer, queue, bp, batch, startIdx,
          retryCount, result, linesRead, fileGood, fileBad, handed, committed,
          thrown, faulted, db, log, file, first, http, pr, tx, ex>>

----------------------------------------------------------------------------
(* Bounds of the model *)

\* lines of the file the reader may produce
MaxLines == 106
\* rows the validator may reject in one import
MaxInvalid == 2
\* lines after the first that the header pass may swallow
MaxLost == 2
\* contacts that may wait in front of a busy BatchProcessor
MaxQueue == 2
\* batches a long import may flush
MaxFlushes == 21
\* number of the last batch of a long import whose writes may fail
MaxFaultyBatch == 2
\* lines of a file that is imported twice
MaxFileLines == 5
\* records of the table that GET /contacts reads
MaxRecords == 4
\* largest number given as page or limit
MaxParam == 3
\* calls of saveMany made one after the other on the same table
MaxCalls == 2

----------------------------------------------------------------------------
(* Cells, lines and the values a field can have *)

Undefined == <<"undefined">>
Null == <<"null">>
NoError == "undefined"
NoResult == [pending |-> TRUE]

sEmail == <<"e", "m", "a", "i", "l">>
sFirstName == <<"f", "i", "r", "s", "t", "_", "n", "a", "m", "e">>
sLastName == <<"l", "a", "s", "t", "_", "n", "a", "m", "e">>

HeaderLine == <<sEmail, sFirstName, sLastName>>
NoKeyHeaderLine == << <<"i", "d">>, sFirstName, sLastName >>
GoodLine == << <<" ", "A", "@", "b", ".", "i", "o">>, <<"A", "n", "n">>, <<"L", "e", "e">> >>
EmptyKeyLine == << <<>>, <<"B", "o", "b">>, <<>> >>

\* a header in other spellings, and a line of two cells
VariantHeaderLine ==
    << <<"E", "m", "a", "i", "l">>,
       <<"F", "i", "r", "s", "t", " ", "N", "a", "m", "e">>,
       <<"L", "a", "s", "t", "N", "a", "m", "e">> >>
ShortLine == << <<"c", "@", "d", ".", "i", "o">>, <<"C", "y">> >>

Lines == {HeaderLine, NoKeyHeaderLine, GoodLine, EmptyKeyLine, VariantHeaderLine,
          ShortLine}

\* no line at all: the first line of an empty file
NoLine == <<>>
\* the lines of the file are not fixed in advance
AnyFile == <<>>
\* an empty contacts table
EmptyStore == {}
\* no GET /contacts request
NoRequest == [pending |-> TRUE]
\* a part of the program that is not run
NotRunning == [running |-> FALSE]

----------------------------------------------------------------------------
(* Strings *)

UpperChars == <<"A", "B", "C", "D", "E", "F", "G", "H", "I", "J", "K", "L", "M",
                "N", "O", "P", "Q", "R", "S", "T", "U", "V", "W", "X", "Y", "Z">>
LowerChars == <<"a", "b", "c", "d", "e", "f", "g", "h", "i", "j", "k", "l", "m",
                "n", "o", "p", "q", "r", "s", "t", "u", "v", "w", "x", "y", "z">>
DigitSeq == <<"0", "1", "2", "3", "4", "5", "6", "7", "8", "9">>
DigitChars == {"0", "1", "2", "3", "4", "5", "6", "7", "8", "9"}
WhiteSpace == {" ", "\t"}

Range(s) == {s[i] : i \in DOMAIN s}

\* the decimal digits of a natural number
RECURSIVE Digits(_)
Digits(n) ==
    IF n < 10 THEN <<DigitSeq[n + 1]>>
    ELSE Append(Digits(n \div 10), DigitSeq[(n % 10) + 1])

\* a well-formed row whose key is the k-th of a series of distinct keys
FreshLine(k) ==
    << <<" ", "A">> \o Digits(k) \o <<"@", "b", ".", "i", "o">>,
       <<"A", "n", "n">>, <<"L", "e", "e">> >>
Letters == Range(UpperChars) \cup Range(LowerChars)
AlphaNum == Letters \cup DigitChars

\* String.prototype.toLowerCase, one character
ToLowerChar(c) ==
    IF \E i \in DOMAIN UpperChars : UpperChars[i] = c
    THEN LowerChars[CHOOSE i \in DOMAIN UpperChars : UpperChars[i] = c]
    ELSE c

\* String.prototype.toLowerCase
ToLowerCase(s) == [i \in DOMAIN s |-> ToLowerChar(s[i])]

\* String.prototype.trim
Trim(s) ==
    LET keep == {i \in DOMAIN s : s[i] \notin WhiteSpace}
    IN  IF keep = {} THEN <<>>
        ELSE LET lo == CHOOSE i \in keep : \A j \in keep : i <= j
                 hi == CHOOSE i \in keep : \A j \in keep : j <= i
             IN  SubSeq(s, lo, hi)

\* z.string().email(): the shape local@label(.label)*.tld that zod's pattern
\* accepts, case-insensitively
IsEmail(s) ==
    LET ats == {i \in DOMAIN s : s[i] = "@"}
    IN  /\ Cardinality(ats) = 1
        /\ LET at == CHOOSE i \in ats : TRUE
               local == SubSeq(s, 1, at - 1)
               domain == SubSeq(s, at + 1, Len(s))
               dots == {i \in DOMAIN domain : domain[i] = "."}
           IN  /\ Len(local) >= 1
               /\ \A i \in DOMAIN local : local[i] \in AlphaNum \cup {"_", "'", "+", "-", "."}
               /\ local[1] # "."
               /\ local[Len(local)] \in AlphaNum \cup {"_", "+", "-"}
               /\ \A i \in 1..(Len(s) - 1) : ~(s[i] = "." /\ s[i + 1] = ".")
               /\ dots # {}
               /\ Len(domain) >= 1
               /\ \A i \in DOMAIN domain : domain[i] \in AlphaNum \cup {"-", "."}
               /\ domain[1] \in AlphaNum
               /\ \A i \in dots : i < Len(domain) /\ domain[i + 1] \in AlphaNum
               /\ LET last == CHOOSE i \in dots : \A j \in dots : j <= i
                  IN  /\ Len(domain) - last >= 2
                      /\ \A i \in (last + 1)..Len(domain) : domain[i] \in Letters

----------------------------------------------------------------------------
(* The data parser and the schema *)

\* a parser without the mapValues option
MapValuesAsRead(value) == value


\* csvParser option mapValues: value ? value.trim() : value
MapValues(value) == IF value # <<>> THEN Trim(value) ELSE value

\* row[name] of the object csv-parser builds from a line: the cell under the
\* header called name (the last one of that name), undefined without one
RowField(hdrs, line, name) ==
    LET at == {i \in DOMAIN hdrs : hdrs[i] = name /\ i \in DOMAIN line}
    IN  IF at = {} THEN Undefined
        ELSE MapValues(line[CHOOSE i \in at : \A j \in at : j <= i])

\* ContactValidator.validateAndCreateContact: the input handed to the schema
SchemaInput(hdrs, line) ==
    [email |-> RowField(hdrs, line, sEmail),
     firstName |-> RowField(hdrs, line, sFirstName),
     lastName |-> RowField(hdrs, line, sLastName)]

\* ContactSchema.parse succeeds
SchemaAccepts(input) ==
    /\ input.email # Undefined
    /\ IsEmail(input.email)
    /\ input.firstName # Undefined
    /\ Len(input.firstName) >= 1
    /\ input.lastName \in {Undefined, Null} \/ Len(input.lastName) <= 255

\* the value ContactSchema.parse returns, which Contact.fromInput copies
SchemaParse(input) ==
    [email |-> Trim(ToLowerCase(input.email)),
     firstName |-> Trim(input.firstName),
     lastName |-> IF input.lastName \in {Undefined, Null, <<>>}
                  THEN Null ELSE Trim(input.lastName)]

----------------------------------------------------------------------------
(* Storage faults: the message of the error a write rejects with *)

TimeoutMessage == "Query read timeout"
NetworkMessage == "network error"
ConnectionMessage == "Connection terminated unexpectedly"
ConstraintMessage == "violates check constraint"
ErrorMessages == {TimeoutMessage, NetworkMessage, ConnectionMessage, ConstraintMessage}
\* PostgreSQL, error 21000: two rows of one INSERT ... ON CONFLICT DO UPDATE
\* have the same email
CardinalityMessage == "ON CONFLICT DO UPDATE command cannot affect row a second time"

\* err.message.includes('timeout')
IncludesTimeout(message) == message = TimeoutMessage
\* err.message.includes('network')
IncludesNetwork(message) == message = NetworkMessage

----------------------------------------------------------------------------
(* Program constants *)

InitialBatchSize == 100
MinBatchSize == 50
MaxBatchSize == 500
GrowEvery == 20
SUPABASE_BATCH_SIZE == 500
MAX_RETRIES == 5

\* Math.floor(batchSize * 1.1) in IEEE double arithmetic
GrowFloor(n) == (n * 11) \div 10

\* Math.floor(batchSize * 0.7) in IEEE double arithmetic: the double nearest
\* to 0.7 lies below 0.7, and for these sizes the product rounds to just
\* under the whole number
ShrinkFloor(n) ==
    IF n \in {90, 170, 180, 330, 340, 350, 360}
    THEN (n * 7) \div 10 - 1
    ELSE (n * 7) \div 10

Min(a, b) == IF a <= b THEN a ELSE b
Max(a, b) == IF a >= b THEN a ELSE b

RECURSIVE SumSeq(_)
SumSeq(s) == IF s = <<>> THEN 0 ELSE Head(s) + SumSeq(Tail(s))

----------------------------------------------------------------------------
(* ImportState and the bookkeeping of the two stream stages *)

InitialState ==
    [validCount |-> 0, invalidCount |-> 0, totalCount |-> 0, currentBatch |-> 0,
     batchSize |-> InitialBatchSize, failedBatches |-> <<>>, error |-> NoError]

\* BatchProcessor._transform: the counters of an accepted contact
CountValid(st) == [st EXCEPT !.validCount = @ + 1, !.totalCount = @ + 1]

\* a validator that forgets the total when it rejects a row
CountInvalidOnly(st) == [st EXCEPT !.invalidCount = @ + 1]

\* ContactValidator._transform, catch branch: the counters of a rejected row
CountInvalid(st) == [st EXCEPT !.invalidCount = @ + 1, !.totalCount = @ + 1]

\* processBatch after saveContacts returned: every 20th batch number grows
\* the threshold
BatchSucceeded(st) ==
    IF st.currentBatch % GrowEvery = 0 /\ st.batchSize < MaxBatchSize
    THEN [st EXCEPT !.batchSize = Min(MaxBatchSize, GrowFloor(st.batchSize))]
    ELSE st

\* a catch branch that records a batch only when its error is kept as fatal
BatchFailedFatalOnly(st, message) ==
    IF ~IncludesTimeout(message) /\ ~IncludesNetwork(message)
    THEN [st EXCEPT !.failedBatches = Append(@, st.currentBatch), !.error = message]
    ELSE st

\* a catch branch that shrinks the threshold without a lower limit
BatchFailedNoFloor(st, message) ==
    [st EXCEPT
        !.failedBatches = Append(@, st.currentBatch),
        !.batchSize = ShrinkFloor(@),
        !.error = IF ~IncludesTimeout(message) /\ ~IncludesNetwork(message)
                  THEN message ELSE @]

\* a catch branch that reduces the threshold twice
BatchFailedTwice(st, message) ==
    [st EXCEPT
        !.failedBatches = Append(@, st.currentBatch),
        !.batchSize = Max(MinBatchSize, ShrinkFloor(Max(MinBatchSize, ShrinkFloor(@)))),
        !.error = IF ~IncludesTimeout(message) /\ ~IncludesNetwork(message)
                  THEN message ELSE @]

\* processBatch, catch branch: the batch number is recorded, the threshold
\* shrinks, and a message that names neither a timeout nor the network is
\* kept in state.error
BatchFailed(st, message) ==
    [st EXCEPT
        !.failedBatches = Append(@, st.currentBatch),
        !.batchSize = IF @ > MinBatchSize
                      THEN Max(MinBatchSize, ShrinkFloor(@)) ELSE @,
        !.error = IF ~IncludesTimeout(message) /\ ~IncludesNetwork(message)
                  THEN message ELSE @]

\* a result without its stats block
ImportResultNoStats(st) == [success |-> TRUE]

\* the object import() returns once the pipeline has finished
\* (processingTimeMs left out)
ImportResult(st) ==
    [success |-> TRUE,
     stats |-> [totalProcessed |-> st.totalCount,
                validContacts |-> st.validCount,
                invalidContacts |-> st.invalidCount]]

\* where BatchProcessor goes when processBatch has resolved
AfterBatch(mode) == IF mode = "saving" THEN "idle" ELSE "finished"

----------------------------------------------------------------------------
(* Initial state: import() has built its ImportState and piped the file    *)
(* into the header parser, which has parsed the first line of the file,    *)
(* or has found no line in it.                                             *)

Init ==
    /\ src = "identify"
    /\ \/ fileHeader \in Lines /\ linesRead = 1
       \/ fileHeader = NoLine /\ linesRead = 0
    /\ headers = <<>>
    /\ state = InitialState
    /\ buffer = <<>>
    /\ queue = <<>>
    /\ bp = "idle"
    /\ batch = <<>>
    /\ startIdx = 0
    /\ retryCount = 0
    /\ result = NoResult
    /\ fileGood = 0
    /\ fileBad = 0
    /\ handed = <<>>
    /\ committed = {}
    /\ thrown = {}
    /\ faulted = FALSE
    /\ db = EmptyStore
    /\ log = <<>>
    /\ file = AnyFile
    /\ first = NoResult
    /\ http = NoRequest
    /\ pr = NotRunning
    /\ tx = NotRunning
    /\ ex = NotRunning

\* the lines the file can have next: the next line of a file fixed in
\* advance, or else any line, the well-formed row having a key no earlier
\* row of the file had
NextLines ==
    IF file = AnyFile
    THEN (Lines \ {GoodLine}) \cup {FreshLine(state.validCount + Len(queue) + 1)}
    ELSE IF linesRead < Len(file) THEN {file[linesRead + 1]} ELSE {}

\* history: one more line of the file has been read
ReadLine(line) ==
    /\ linesRead < MaxLines
    /\ linesRead' = linesRead + 1
    /\ IF SchemaAccepts(SchemaInput(fileHeader, line))
       THEN fileGood' = fileGood + 1 /\ fileBad' = fileBad
       ELSE fileGood' = fileGood /\ fileBad' = fileBad + 1

pipeVars == <<state, buffer, queue, bp, batch, startIdx, retryCount, result,
              handed, committed, thrown, faulted, db, log, file, first, http, pr, tx, ex>>

----------------------------------------------------------------------------
(* The two passes over the file stream *)

\* identifyColumnsFromStream: the chunk that carried the first line is
\* written to the header parser as a whole, so the lines that follow the
\* header in it are parsed by the header parser and by nobody else
HeaderPassData(line) ==
    /\ src = "identify"
    /\ fileHeader # NoLine
    /\ linesRead - 1 < MaxLost
    /\ ReadLine(line)
    /\ UNCHANGED <<src, fileHeader, headers>>
    /\ UNCHANGED pipeVars

\* identifyColumnsFromStream, 'headers' handler: the three column names
\* are set to fixed strings, the header parser is destroyed, the promise
\* resolves and import() pipes what is left of the file into the data parser
IdentifyColumns ==
    /\ src = "identify"
    /\ fileHeader # NoLine
    /\ src' = "skipLines"
    /\ UNCHANGED <<fileHeader, headers, linesRead, fileGood, fileBad>>
    /\ UNCHANGED pipeVars

\* the data parser, skipLines: 1: the first line it is given is dropped
\* before the header line is looked for
SkipLine(line) ==
    /\ src = "skipLines"
    /\ ReadLine(line)
    /\ src' = "headers"
    /\ UNCHANGED <<fileHeader, headers>>
    /\ UNCHANGED pipeVars

\* the data parser: the first line after the skipped one names the columns
ReadHeaders(line) ==
    /\ src = "headers"
    /\ ReadLine(line)
    /\ headers' = line
    /\ src' = "rows"
    /\ UNCHANGED fileHeader
    /\ UNCHANGED pipeVars

\* the file stream ends
EndOfInput ==
    /\ src \in {"skipLines", "headers", "rows"}
    /\ file = AnyFile \/ linesRead = Len(file)
    /\ src' = "end"
    /\ UNCHANGED <<fileHeader, headers, linesRead, fileGood, fileBad>>
    /\ UNCHANGED pipeVars

----------------------------------------------------------------------------
(* BatchProcessor *)

\* a processBatch that hands the batch over without taking a new number
StartBatchUnnumbered(buf, st, mode) ==
    /\ batch' = buf
    /\ buffer' = <<>>
    /\ state' = st
    /\ handed' = Append(handed, Len(buf))
    /\ startIdx' = 0
    /\ retryCount' = 0
    /\ bp' = mode


\* processBatch up to its await: the buffer becomes the batch, the batch
\* number is taken, and the batch is handed to saveContacts, whose saveMany
\* starts with the first chunk
StartBatch(buf, st, mode) ==
    /\ batch' = buf
    /\ buffer' = <<>>
    /\ state' = [st EXCEPT !.currentBatch = @ + 1]
    /\ handed' = Append(handed, Len(buf))
    /\ startIdx' = 0
    /\ retryCount' = 0
    /\ bp' = mode

\* a _transform that flushes only once the buffer has passed the threshold
TransformLate(contact) ==
    LET buf == Append(buffer, contact)
        st == CountValid(state)
    IN  IF Len(buf) > st.batchSize
        THEN StartBatch(buf, st, "saving")
        ELSE /\ buffer' = buf
             /\ state' = st
             /\ UNCHANGED <<bp, batch, startIdx, retryCount, handed>>

\* BatchProcessor._transform
Transform(contact) ==
    LET buf == Append(buffer, contact)
        st == CountValid(state)
    IN  IF Len(buf) >= st.batchSize
        THEN StartBatch(buf, st, "saving")
        ELSE /\ buffer' = buf
             /\ state' = st
             /\ UNCHANGED <<bp, batch, startIdx, retryCount, handed>>

\* ContactValidator._transform on a row the schema accepts: the contact is
\* pushed downstream; an idle BatchProcessor takes it at once, a busy one
\* leaves it waiting
ValidatorAccept(line) ==
    /\ src = "rows"
    /\ Len(line) = Len(headers)
    /\ SchemaAccepts(SchemaInput(headers, line))
    /\ ReadLine(line)
    /\ LET contact == SchemaParse(SchemaInput(headers, line))
       IN  IF bp = "idle" /\ queue = <<>>
           THEN Transform(contact) /\ UNCHANGED queue
           ELSE /\ Len(queue) < MaxQueue
                /\ queue' = Append(queue, contact)
                /\ UNCHANGED <<state, buffer, bp, batch, startIdx, retryCount, handed>>
    /\ UNCHANGED <<src, fileHeader, headers, result, committed, thrown, faulted,
                   db, log, file, first, http, pr, tx, ex>>

\* the data parser, strict: true: a row whose number of cells differs from
\* the number of headers makes it emit 'error'.  No stage but the last has
\* a listener for it: the parser is destroyed, nothing reaches the validator
\* any more and the error leaves import() as an uncaught exception
StrictError(line) ==
    /\ src = "rows"
    /\ Len(line) # Len(headers)
    /\ ReadLine(line)
    /\ src' = "failed"
    /\ UNCHANGED <<fileHeader, headers>>
    /\ UNCHANGED pipeVars

\* ContactValidator._transform on a row the schema rejects
ValidatorReject(line) ==
    /\ src = "rows"
    /\ Len(line) = Len(headers)
    /\ ~SchemaAccepts(SchemaInput(headers, line))
    /\ state.invalidCount < MaxInvalid
    /\ ReadLine(line)
    /\ state' = CountInvalid(state)
    /\ UNCHANGED <<src, fileHeader, headers, buffer, queue, bp, batch, startIdx,
                   retryCount, result, handed, committed, thrown, faulted,
                   db, log, file, first, http, pr, tx, ex>>

\* a stream that calls _transform before the callback of the call before
TransformQueuedAnyTime ==
    /\ queue # <<>>
    /\ Transform(Head(queue))
    /\ queue' = Tail(queue)
    /\ UNCHANGED <<src, fileHeader, headers, result, linesRead, fileGood, fileBad,
                   committed, thrown, faulted, db, log, file, first, http, pr, tx, ex>>

\* BatchProcessor._transform on a contact that waited for processBatch
TransformQueued ==
    /\ bp = "idle"
    /\ queue # <<>>
    /\ Transform(Head(queue))
    /\ queue' = Tail(queue)
    /\ UNCHANGED <<src, fileHeader, headers, result, linesRead, fileGood, fileBad,
                   committed, thrown, faulted, db, log, file, first, http, pr, tx, ex>>

\* a _flush that ends the stream without handing over what is buffered
FlushDropsBuffer ==
    /\ src = "end"
    /\ bp = "idle"
    /\ queue = <<>>
    /\ bp' = "finished"
    /\ UNCHANGED <<state, buffer, batch, startIdx, retryCount, handed>>
    /\ UNCHANGED <<src, fileHeader, headers, queue, result, linesRead, fileGood,
                   fileBad, committed, thrown, faulted, db, log, file, first, http, pr, tx, ex>>

\* BatchProcessor._flush, once the input has ended and every contact has
\* been taken
Flush ==
    /\ src = "end"
    /\ bp = "idle"
    /\ queue = <<>>
    /\ IF buffer # <<>>
       THEN StartBatch(buffer, state, "finalSaving")
       ELSE /\ bp' = "finished"
            /\ UNCHANGED <<state, buffer, batch, startIdx, retryCount, handed>>
    /\ UNCHANGED <<src, fileHeader, headers, queue, result, linesRead, fileGood,
                   fileBad, committed, thrown, faulted, db, log, file, first, http, pr, tx, ex>>

----------------------------------------------------------------------------
(* PostgresContactRepository.saveMany, called through saveContacts *)

Saving == bp \in {"saving", "finalSaving", "direct"}

\* a slice of at most 50 contacts
BatchContactsOfFifty ==
    SubSeq(batch, startIdx + 1, Min(startIdx + 50, Len(batch)))


\* contacts.slice(startIdx, startIdx + SUPABASE_BATCH_SIZE)
BatchContacts ==
    SubSeq(batch, startIdx + 1, Min(startIdx + SUPABASE_BATCH_SIZE, Len(batch)))

\* the emails of a chunk
Keys(contacts) == {contacts[i].email : i \in DOMAIN contacts}

\* two rows of the INSERT have the same email: PostgreSQL rejects the
\* statement
HasDuplicateKeys(contacts) == Cardinality(Keys(contacts)) < Len(contacts)

\* an INSERT ... ON CONFLICT (email) DO NOTHING: a present record is kept
UpsertKeepsFirst(table, contacts) ==
    LET present == {r.email : r \in table}
    IN  table \cup {c \in Range(contacts) : c.email \notin present}

\* saveBatch, the INSERT ... ON CONFLICT (email) DO UPDATE once committed:
\* a record with a new email is added, a record with a present email has
\* its names replaced
Upsert(table, contacts) ==
    LET keys == Keys(contacts)
    IN  {r \in table : r.email \notin keys} \cup Range(contacts)

\* saveBatch commits the current chunk: the next chunk follows, or saveMany
\* returns and processBatch takes its success branch
WriteSucceeds ==
    /\ Saving
    /\ ~HasDuplicateKeys(BatchContacts)
    /\ db' = Upsert(db, BatchContacts)
    /\ log' = Append(log, [call |-> Len(handed), chunk |-> BatchContacts])
    /\ IF startIdx + SUPABASE_BATCH_SIZE < Len(batch)
       THEN /\ startIdx' = startIdx + SUPABASE_BATCH_SIZE
            /\ retryCount' = 0
            /\ UNCHANGED <<state, bp, committed>>
       ELSE IF bp = "direct"
       THEN /\ committed' = committed \cup {Len(handed)}
            /\ bp' = "returned"
            /\ UNCHANGED <<state, startIdx, retryCount>>
       ELSE /\ state' = BatchSucceeded(state)
            /\ committed' = committed \cup {state.currentBatch}
            /\ bp' = AfterBatch(bp)
            /\ UNCHANGED <<startIdx, retryCount>>
    /\ UNCHANGED <<src, fileHeader, headers, buffer, queue, batch, result,
                   linesRead, fileGood, fileBad, handed, thrown, faulted,
                   file, first, http, pr, tx, ex>>

\* saveBatch rolls back and rethrows: saveMany counts the attempt and either
\* goes round its loop again or, past MAX_RETRIES, throws the error, which
\* processBatch catches
WriteFails(message) ==
    /\ Saving
    /\ message = CardinalityMessage => HasDuplicateKeys(BatchContacts)
    /\ faulted' = TRUE
    /\ IF retryCount + 1 > MAX_RETRIES
       THEN IF bp = "direct"
            THEN /\ thrown' = thrown \cup {[batch |-> Len(handed), message |-> message]}
                 /\ bp' = "threw"
                 /\ UNCHANGED <<state, retryCount>>
            ELSE /\ state' = BatchFailed(state, message)
                 /\ thrown' = thrown \cup {[batch |-> state.currentBatch, message |-> message]}
                 /\ bp' = AfterBatch(bp)
                 /\ UNCHANGED retryCount
       ELSE /\ retryCount' = retryCount + 1
            /\ UNCHANGED <<state, thrown, bp>>
    /\ UNCHANGED <<src, fileHeader, headers, buffer, queue, batch, startIdx,
                   result, linesRead, fileGood, fileBad, handed, committed,
                   db, log, file, first, http, pr, tx, ex>>

----------------------------------------------------------------------------
(* import() returns *)

\* the 'finish' handler resolves and import() builds its result
Return ==
    /\ bp = "finished"
    /\ result = NoResult
    /\ result' = ImportResult(state)
    /\ UNCHANGED <<src, fileHeader, headers, state, buffer, queue, bp, batch,
                   startIdx, retryCount, linesRead, fileGood, fileBad, handed,
                   committed, thrown, faulted, db, log, file, first, http, pr, tx, ex>>

Next ==
    \/ \E line \in NextLines : HeaderPassData(line)
    \/ IdentifyColumns
    \/ \E line \in NextLines : SkipLine(line)
    \/ \E line \in NextLines : ReadHeaders(line)
    \/ EndOfInput
    \/ \E line \in NextLines : StrictError(line)
    \/ \E line \in NextLines : ValidatorAccept(line)
    \/ \E line \in NextLines : ValidatorReject(line)
    \/ TransformQueued
    \/ Flush
    \/ WriteSucceeds
    \/ \E message \in ErrorMessages \cup {CardinalityMessage} : WriteFails(message)
    \/ Return

Spec == Init /\ [][Next]_vars

----------------------------------------------------------------------------
(* Long imports: a file with the header email,first_name,last_name in its  *)
(* first three lines and well-formed rows with distinct keys after them,   *)
(* taken one batch at a time.                                              *)

\* the state of Spec after IdentifyColumns, SkipLine(HeaderLine) and
\* ReadHeaders(HeaderLine) on a file that starts with HeaderLine
InitLong ==
    /\ src = "rows"
    /\ fileHeader = HeaderLine
    /\ headers = HeaderLine
    /\ state = InitialState
    /\ buffer = <<>>
    /\ queue = <<>>
    /\ bp = "idle"
    /\ batch = <<>>
    /\ startIdx = 0
    /\ retryCount = 0
    /\ result = NoResult
    /\ linesRead = 3
    /\ fileGood = 0
    /\ fileBad = 2
    /\ handed = <<>>
    /\ committed = {}
    /\ thrown = {}
    /\ faulted = FALSE
    /\ db = EmptyStore
    /\ log = <<>>
    /\ file = AnyFile
    /\ first = NoResult
    /\ http = NoRequest
    /\ pr = NotRunning
    /\ tx = NotRunning
    /\ ex = NotRunning

\* BatchProcessor._transform, k times: k times what one call adds to the
\* counters
CountValidTimes(st, k) ==
    LET one == CountValid(st)
    IN  [st EXCEPT !.validCount = @ + k * (one.validCount - st.validCount),
                   !.totalCount = @ + k * (one.totalCount - st.totalCount)]

\* as many steps ValidatorAccept as it takes to fill the buffer, taken as
\* one: the rows are accepted, counted and buffered, and the last of them
\* makes _transform call processBatch
FillBatch ==
    /\ src = "rows"
    /\ bp = "idle"
    /\ queue = <<>>
    /\ state.currentBatch < MaxFlushes
    /\ LET k == state.batchSize - Len(buffer)
           rows == [i \in 1..k |-> FreshLine(state.validCount + i)]
       IN  /\ {i \in 1..k : ~(/\ Len(rows[i]) = Len(headers)
                                /\ SchemaAccepts(SchemaInput(headers, rows[i])))} = {}
           /\ StartBatch(buffer \o [i \in 1..k |-> SchemaParse(SchemaInput(headers, rows[i]))],
                         CountValidTimes(state, k), "saving")
           /\ linesRead' = linesRead + k
           /\ fileGood' = fileGood + k
    /\ UNCHANGED <<src, fileHeader, headers, queue, result, fileBad, committed,
                   thrown, faulted, db, log, file, first, http, pr, tx, ex>>

\* WriteFails in one of the first batches
BoundedWriteFails(message) ==
    /\ state.currentBatch <= MaxFaultyBatch
    /\ WriteFails(message)

NextLong ==
    \/ FillBatch
    \/ WriteSucceeds
    \/ \E message \in ErrorMessages : BoundedWriteFails(message)
    \/ EndOfInput
    \/ Flush
    \/ Return

SpecLong == InitLong /\ [][NextLong]_vars

----------------------------------------------------------------------------
(* One file imported twice into the same table.  The file is short, so     *)
(* that its rows stay below the batch threshold and are flushed at the end *)
(* of the input; all its lines have three cells.                           *)

TwiceLines == {HeaderLine, GoodLine, FreshLine(1), EmptyKeyLine}

RECURSIVE SeqsOfLen(_, _)
SeqsOfLen(S, n) ==
    IF n = 0 THEN {<<>>}
    ELSE {Append(f, x) : f \in SeqsOfLen(S, n - 1), x \in S}

Files == UNION {SeqsOfLen(TwiceLines, n) : n \in 1..MaxFileLines}

InitTwice ==
    /\ src = "identify"
    /\ file \in Files
    /\ fileHeader = file[1]
    /\ linesRead = 1
    /\ headers = <<>>
    /\ state = InitialState
    /\ buffer = <<>>
    /\ queue = <<>>
    /\ bp = "idle"
    /\ batch = <<>>
    /\ startIdx = 0
    /\ retryCount = 0
    /\ result = NoResult
    /\ fileGood = 0
    /\ fileBad = 0
    /\ handed = <<>>
    /\ committed = {}
    /\ thrown = {}
    /\ faulted = FALSE
    /\ db = EmptyStore
    /\ log = <<>>
    /\ first = NoResult
    /\ http = NoRequest
    /\ pr = NotRunning
    /\ tx = NotRunning
    /\ ex = NotRunning

\* import() is called again with a stream of the same file, on the table
\* its first call left: a new ImportState, new stream stages
ImportAgain ==
    /\ result # NoResult
    /\ first = NoResult
    /\ first' = [result |-> result, db |-> db]
    /\ src' = "identify"
    /\ linesRead' = 1
    /\ headers' = <<>>
    /\ state' = InitialState
    /\ buffer' = <<>>
    /\ queue' = <<>>
    /\ bp' = "idle"
    /\ batch' = <<>>
    /\ startIdx' = 0
    /\ retryCount' = 0
    /\ result' = NoResult
    /\ fileGood' = 0
    /\ fileBad' = 0
    /\ handed' = <<>>
    /\ committed' = {}
    /\ thrown' = {}
    /\ UNCHANGED <<fileHeader, faulted, db, log, file, http, pr, tx, ex>>

NextTwice ==
    \/ \E line \in NextLines : HeaderPassData(line)
    \/ IdentifyColumns
    \/ \E line \in NextLines : SkipLine(line)
    \/ \E line \in NextLines : ReadHeaders(line)
    \/ EndOfInput
    \/ \E line \in NextLines : ValidatorAccept(line)
    \/ \E line \in NextLines : ValidatorReject(line)
    \/ Flush
    \/ WriteSucceeds
    \/ WriteFails(CardinalityMessage)
    \/ Return
    \/ ImportAgain

SpecTwice == InitTwice /\ [][NextTwice]_vars

----------------------------------------------------------------------------
(* The repository on its own: saveMany called with one batch after the     *)
(* other, as ContactService.saveContacts does for every caller.            *)

\* contacts as Contact.fromInput builds them: two with the same email and
\* different names, and a series with distinct emails
AnnContact == SchemaParse(SchemaInput(HeaderLine, GoodLine))
BobContact == [AnnContact EXCEPT !.firstName = <<"B", "o", "b">>, !.lastName = Null]
FreshContact(k) == SchemaParse(SchemaInput(HeaderLine, FreshLine(k)))

\* a batch of one contact more than a chunk holds
BigBatch == [i \in 1..(SUPABASE_BATCH_SIZE + 1) |-> FreshContact(i)]

\* the batches saveMany is called with
DirectBatches ==
    {<<>>, <<AnnContact>>, <<BobContact>>, <<AnnContact, BobContact>>,
     <<BobContact, FreshContact(1)>>, BigBatch}

\* the errors a write of these calls fails with
DirectMessages == {TimeoutMessage, CardinalityMessage}

InitRepo ==
    /\ src = "none"
    /\ fileHeader = NoLine
    /\ headers = <<>>
    /\ state = InitialState
    /\ buffer = <<>>
    /\ queue = <<>>
    /\ bp = "ready"
    /\ batch = <<>>
    /\ startIdx = 0
    /\ retryCount = 0
    /\ result = NoResult
    /\ linesRead = 0
    /\ fileGood = 0
    /\ fileBad = 0
    /\ handed = <<>>
    /\ committed = {}
    /\ thrown = {}
    /\ faulted = FALSE
    /\ db = EmptyStore
    /\ log = <<>>
    /\ file = AnyFile
    /\ first = NoResult
    /\ http = NoRequest
    /\ pr = NotRunning
    /\ tx = NotRunning
    /\ ex = NotRunning

\* saveMany is called: with no contact it returns at once, otherwise its
\* loop starts with the first chunk
CallSaveMany(contacts) ==
    /\ bp \in {"ready", "returned", "threw"}
    /\ Len(handed) < MaxCalls
    /\ handed' = Append(handed, Len(contacts))
    /\ batch' = contacts
    /\ startIdx' = 0
    /\ retryCount' = 0
    /\ IF Len(contacts) = 0
       THEN bp' = "returned" /\ committed' = committed \cup {Len(handed) + 1}
       ELSE bp' = "direct" /\ UNCHANGED committed
    /\ UNCHANGED <<src, fileHeader, headers, state, buffer, queue, result,
                   linesRead, fileGood, fileBad, thrown, faulted, db, log,
                   file, first, http, pr, tx, ex>>

NextRepo ==
    \/ \E contacts \in DirectBatches : CallSaveMany(contacts)
    \/ WriteSucceeds
    \/ \E message \in DirectMessages : WriteFails(message)

SpecRepo == InitRepo /\ [][NextRepo]_vars

----------------------------------------------------------------------------
(* GET /contacts: ContactController.getContacts, ContactService.getContacts *)
(* and PostgresContactRepository.findAll.                                   *)

\* the value of a number and NaN
Num(n) == [nan |-> FALSE, value |-> n]
NaN == [nan |-> TRUE, value |-> 0]

RECURSIVE DecimalValue(_)
DecimalValue(ds) ==
    IF ds = <<>> THEN 0
    ELSE 10 * DecimalValue(SubSeq(ds, 1, Len(ds) - 1))
           + (CHOOSE d \in 0..9 : DigitSeq[d + 1] = ds[Len(ds)])

\* parseInt(string) for a string that does not start with 0x: white space
\* in front is skipped, a sign is taken, then the digits up to the first
\* character that is none; NaN without a digit
ParseInt(str) ==
    LET black == {i \in DOMAIN str : str[i] \notin WhiteSpace}
        from == IF black = {} THEN Len(str) + 1
                ELSE CHOOSE i \in black : \A j \in black : i <= j
        signed == from <= Len(str) /\ str[from] \in {"-", "+"}
        start == IF signed THEN from + 1 ELSE from
        stops == {i \in start..Len(str) : str[i] \notin DigitChars}
        stop == IF stops = {} THEN Len(str) + 1
                ELSE CHOOSE i \in stops : \A j \in stops : i <= j
        digits == SubSeq(str, start, stop - 1)
    IN  IF digits = <<>> THEN NaN
        ELSE IF signed /\ str[from] = "-" THEN Num(0 - DecimalValue(digits))
        ELSE Num(DecimalValue(digits))

\* req.query.x ? parseInt(req.query.x as string) : default
QueryParam(raw, default) ==
    IF raw = Undefined \/ raw = <<>> THEN Num(default) ELSE ParseInt(raw)

\* getContacts: the test that answers 400
InvalidPagination(page, limit) ==
    page.nan \/ limit.nan \/ page.value < 1 \/ limit.value < 1

\* an offset counted from the page number instead of the pages before it
OffsetOfNextPage(page, limit) == page * limit

\* ContactService.getContacts: const offset = (page - 1) * limit
Offset(page, limit) == (page - 1) * limit

\* the order of two characters, and of two emails, under ORDER BY email
CharOrder == <<".">> \o DigitSeq \o <<"@">> \o LowerChars
CharRank(c) == CHOOSE i \in DOMAIN CharOrder : CharOrder[i] = c
EmailLess(a, b) ==
    \/ \E i \in DOMAIN a \cap DOMAIN b :
          /\ CharRank(a[i]) < CharRank(b[i])
          /\ \A j \in 1..(i - 1) : a[j] = b[j]
    \/ Len(a) < Len(b) /\ SubSeq(b, 1, Len(a)) = a

\* SELECT ... FROM contacts ORDER BY email
RECURSIVE OrderByEmail(_)
OrderByEmail(table) ==
    IF table = {} THEN <<>>
    ELSE LET least == CHOOSE r \in table :
                         \A q \in table \ {r} : EmailLess(r.email, q.email)
         IN  <<least>> \o OrderByEmail(table \ {least})

\* findAll: ... ORDER BY email OFFSET $1 LIMIT $2
FindAll(table, limit, offset) ==
    LET rows == OrderByEmail(table)
    IN  SubSeq(rows, offset + 1, Min(offset + limit, Len(rows)))

\* the strings given as page or limit, and no parameter at all
QueryValues ==
    {Undefined, <<>>, <<"-", "1">>, <<"x">>, <<"2", "x">>, <<" ", "1", ".", "5">>}
      \cup {Digits(n) : n \in 0..MaxParam}

InitPaging ==
    /\ http \in [page : QueryValues, limit : QueryValues, status : {0},
                  body : {<<>>}, queries : {<<>>}]
    /\ \E n \in 0..MaxRecords : db = {FreshContact(k) : k \in 1..n}
    /\ src = "none"
    /\ fileHeader = NoLine
    /\ headers = <<>>
    /\ state = InitialState
    /\ buffer = <<>>
    /\ queue = <<>>
    /\ bp = "ready"
    /\ batch = <<>>
    /\ startIdx = 0
    /\ retryCount = 0
    /\ result = NoResult
    /\ linesRead = 0
    /\ fileGood = 0
    /\ fileBad = 0
    /\ handed = <<>>
    /\ committed = {}
    /\ thrown = {}
    /\ faulted = FALSE
    /\ log = <<>>
    /\ file = AnyFile
    /\ first = NoResult
    /\ pr = NotRunning
    /\ tx = NotRunning
    /\ ex = NotRunning

\* ContactController.getContacts: 400 for invalid pagination; otherwise the
\* service computes the offset and findAll runs its query, whose rows are
\* the response, or whose failure makes the response a 500
GetContacts(queryWorks) ==
    /\ http # NoRequest
    /\ http.status = 0
    /\ LET page == QueryParam(http.page, 1)
           limit == QueryParam(http.limit, 20)
           offset == Offset(page.value, limit.value)
           query == [offset |-> offset, limit |-> limit.value]
       IN  IF InvalidPagination(page, limit)
           THEN http' = [http EXCEPT !.status = 400]
           ELSE IF queryWorks
           THEN http' = [http EXCEPT !.status = 200,
                                     !.queries = Append(@, query),
                                     !.body = FindAll(db, limit.value, offset)]
           ELSE http' = [http EXCEPT !.status = 500,
                                     !.queries = Append(@, query)]
    /\ UNCHANGED <<src, fileHeader, headers, state, buffer, queue, bp, batch,
                   startIdx, retryCount, result, linesRead, fileGood, fileBad,
                   handed, committed, thrown, faulted, db, log, file, first,
                   pr, tx, ex>>

NextPaging == \E queryWorks \in BOOLEAN : GetContacts(queryWorks)

SpecPaging == InitPaging /\ [][NextPaging]_vars

----------------------------------------------------------------------------
(* What the claims speak about *)

Returned == result # NoResult

\* a timeout or the loss of the connection or network
Transient(message) == message \in {TimeoutMessage, NetworkMessage, ConnectionMessage}

FatalThrown == {t \in thrown : ~Transient(t.message)}
TransientThrown == {t \in thrown : Transient(t.message)}

Occurrences(s, x) == Cardinality({i \in DOMAIN s : s[i] = x})

FirstNameVariants ==
    {sFirstName,
     <<"f", "i", "r", "s", "t", "n", "a", "m", "e">>,
     <<"f", "i", "r", "s", "t", " ", "n", "a", "m", "e">>}

\* the header row has no column for the key or none for the required field
MissingRequiredColumn(hdr) ==
    \/ ~\E i \in DOMAIN hdr : ToLowerCase(hdr[i]) = sEmail
    \/ ~\E i \in DOMAIN hdr : ToLowerCase(hdr[i]) \in FirstNameVariants

----------------------------------------------------------------------------
(* Claims *)

\* C1: at every point of an import, and in the stats of the result,
\* total = valid + invalid
C1_TotalIsValidPlusInvalid ==
    /\ state.totalCount = state.validCount + state.invalidCount
    /\ Returned =>
         result.stats.totalProcessed
           = result.stats.validContacts + result.stats.invalidContacts

\* C1 witness: an import has returned after counting valid and invalid rows
C1_Witness ==
    /\ Returned
    /\ result.stats.validContacts > 0
    /\ result.stats.invalidContacts > 0

\* C2: a file made of the header email,first_name,last_name and N >= 1
\* well-formed rows, imported without storage faults, gives success with
\* total = valid = N, invalid = 0, no failed batch, and all N rows handed to
\* saveContacts
C2_WellFormedFileImported ==
    (Returned /\ fileHeader = HeaderLine /\ fileGood >= 1 /\ fileBad = 0 /\ ~faulted)
      => /\ result.success
         /\ result.stats.totalProcessed = fileGood
         /\ result.stats.validContacts = fileGood
         /\ result.stats.invalidContacts = 0
         /\ state.failedBatches = <<>>
         /\ SumSeq(handed) = fileGood

\* C3: when a batch flush failed with a non-transient error, the result has
\* success = false and carries an error description
C3_FatalFailureReported ==
    (Returned /\ FatalThrown # {})
      => /\ result.success = FALSE
         /\ "error" \in DOMAIN result

\* C4: once a batch flush has failed with a non-transient error, no further
\* batch is handed to saveContacts and no further row is counted
C4_FatalFailureHalts ==
    [][FatalThrown # {} =>
         /\ handed' = handed
         /\ state'.totalCount = state.totalCount
         /\ state'.validCount = state.validCount
         /\ state'.invalidCount = state.invalidCount]_vars

\* C5: a batch whose write failed with a transient error after all retries is
\* recorded exactly once in failedBatches; the import goes on, so that at the
\* end every contact counted valid has been handed to saveContacts, and
\* success is true when another batch committed
C5_ExhaustedBatchRecordedOnce ==
    \A t \in TransientThrown :
        /\ Occurrences(state.failedBatches, t.batch) = 1
        /\ Returned =>
             /\ SumSeq(handed) = state.validCount
             /\ committed # {} => result.success = TRUE

\* C5 witness: an import returned in which a batch failed with a transient
\* error and a later batch was flushed and committed
C5_Witness ==
    /\ Returned
    /\ \E t \in TransientThrown : \E b \in committed : b > t.batch

\* C6: when a batch failed permanently, the result lists the numbers of the
\* failed batches
C6_FailedBatchesReturned ==
    (Returned /\ thrown # {})
      => /\ "failedBatches" \in DOMAIN result
         /\ Range(result.failedBatches) = {t.batch : t \in thrown}

\* C7: an import that ends with zero valid records has success = false
C7_NoValidRecordsFails ==
    (Returned /\ state.validCount = 0) => result.success = FALSE

\* C8: when the only batch of an import fails with an exhausted transient
\* error, the result has success = false
C8_OnlyBatchExhaustedFails ==
    (Returned /\ Len(handed) = 1 /\ committed = {} /\ TransientThrown # {})
      => result.success = FALSE

\* C9: when the header row lacks the key column or the required column, the
\* import fails before any row is processed: success = false, all counts 0,
\* saveContacts never called
C9_MissingColumnsFatal ==
    (Returned /\ MissingRequiredColumn(fileHeader))
      => /\ result.success = FALSE
         /\ result.stats.totalProcessed = 0
         /\ result.stats.validContacts = 0
         /\ result.stats.invalidContacts = 0
         /\ handed = <<>>

\* C10: at completion invalid is the number of rows of the file the schema
\* rejects and valid the number it accepts, and rejected rows do not make
\* the import fail
C10_RejectedRowsOnlyCounted ==
    (Returned /\ fileHeader = HeaderLine /\ ~faulted)
      => /\ result.stats.invalidContacts = fileBad
         /\ result.stats.validContacts = fileGood
         /\ fileGood >= 1 => result.success

\* the band the batch threshold is meant to stay in
InBand(n) == MinBatchSize <= n /\ n <= MaxBatchSize

\* C11: the batch threshold is within [50, 500] at every point of an import,
\* whatever flushes committed or failed before; and while a flush is in
\* flight, from whatever threshold of the band it started, its commit as
\* well as its failure leaves the threshold in the band
C11_BatchSizeInBand ==
    /\ InBand(state.batchSize)
    /\ Saving =>
         \A n \in MinBatchSize..MaxBatchSize :
             LET st == [state EXCEPT !.batchSize = n]
             IN  /\ InBand(BatchSucceeded(st).batchSize)
                 /\ \A message \in ErrorMessages :
                        InBand(BatchFailed(st, message).batchSize)

\* C11 witness: two failed batches took the threshold down to the floor,
\* and the twentieth batch has raised it again
C11_Witness ==
    /\ Len(state.failedBatches) = 2
    /\ state.currentBatch >= GrowEvery
    /\ state.batchSize = GrowFloor(MinBatchSize)

\* the records a table holds when the chunks of l have been written in
\* their order, each record being the last one written with its email
LastWriter(l) ==
    LET keysAt == [i \in DOMAIN l |-> Keys(l[i].chunk)]
    IN  UNION {{c \in Range(l[i].chunk) :
                  \A j \in (i + 1)..Len(l) : c.email \notin keysAt[j]} :
               i \in DOMAIN l}

\* two chunks hold records with the same email and different names
SameKeyOtherNames(a, b) ==
    \E x \in Range(a), y \in Range(b) : x.email = y.email /\ x # y

\* the emails written so far
KeysWritten(l) == UNION {Keys(l[i].chunk) : i \in DOMAIN l}

\* C12: the table holds, for every email written, the record of the chunk
\* committed last with that email, and one record per email: writing an
\* email that is present does not change the number of records
C12_LastWriterWins ==
    /\ db = LastWriter(log)
    /\ Cardinality(db) = Cardinality(KeysWritten(log))

\* C12 witness: two committed batches carried the same email with different
\* names, and the call for the second has returned
C12_Witness ==
    /\ bp = "returned"
    /\ \E i, j \in DOMAIN log :
          /\ i < j
          /\ SameKeyOtherNames(log[i].chunk, log[j].chunk)

\* C13: when a file has been imported twice without a failed write, the
\* table is as the first import left it, and the second result has the
\* counts of the first
C13_ReimportIdempotent ==
    (Returned /\ first # NoResult /\ ~faulted)
      => /\ db = first.db
         /\ result.stats = first.result.stats

\* C14: every result import() has returned carries a stats block whose
\* total, valid and invalid counts are the counters the import has reached,
\* also when columns were missing, a batch failed for good or no row was
\* valid
C14_ResultHasStats ==
    Returned =>
        /\ "stats" \in DOMAIN result
        /\ result.stats.totalProcessed = state.totalCount
        /\ result.stats.validContacts = state.validCount
        /\ result.stats.invalidContacts = state.invalidCount

\* C14 witness: an import returned after a batch had failed for good, with
\* rows counted
C14_Witness ==
    /\ Returned
    /\ thrown # {}
    /\ state.totalCount > 0

\* C15: an import that has not returned a result can take a further step:
\* no input and no storage failure leaves import() waiting for ever or
\* ends it with an error instead of a result
C15_ImportReturns == Returned \/ ENABLED Next

\* C16: when a call of saveMany has returned, every record of its batch is
\* in the table; when it has thrown, no chunk of its batch was committed
C16_SaveManyAllOrNothing ==
    /\ bp = "returned" => \A c \in Range(batch) : c \in db
    /\ bp = "threw" => ~\E i \in DOMAIN log : log[i].call = Len(handed)

LastNameVariants ==
    {sLastName,
     <<"l", "a", "s", "t", "n", "a", "m", "e">>,
     <<"l", "a", "s", "t", " ", "n", "a", "m", "e">>}

\* the first header that is, in lower case, one of the spellings of a role
ResolveColumn(hdrs, spellings) ==
    LET at == {i \in DOMAIN hdrs : ToLowerCase(hdrs[i]) \in spellings}
    IN  IF at = {} THEN Undefined
        ELSE hdrs[CHOOSE i \in at : \A j \in at : i <= j]

\* a row read through the header names its roles resolve to
ResolvedInput(hdrs, line) ==
    [email |-> RowField(hdrs, line, ResolveColumn(hdrs, {sEmail})),
     firstName |-> RowField(hdrs, line, ResolveColumn(hdrs, FirstNameVariants)),
     lastName |-> RowField(hdrs, line, ResolveColumn(hdrs, LastNameVariants))]

\* C17: whatever the case and the spelling variant of the header names, the
\* validator reads the email, first name and last name of a row from the
\* cells under the headers these roles resolve to
C17_RowsReadThroughResolvedColumns ==
    src = "rows" =>
        \A line \in NextLines :
            Len(line) = Len(headers)
              => SchemaInput(headers, line) = ResolvedInput(headers, line)

\* the number of records of the table that come before r in email order
RankByEmail(r) == Cardinality({q \in db : EmailLess(q.email, r.email)})

\* the records whose place in email order is from + 1 .. from + count
Window(from, count) ==
    {r \in db : from <= RankByEmail(r) /\ RankByEmail(r) < from + count}

C19_BufferWithinThreshold ==
    /\ [](Len(buffer) <= state.batchSize /\ (Saving => buffer = <<>>))
    /\ [][/\ handed' # handed => Len(batch') <= state.batchSize
          /\ (Saving /\ ~Saving') => buffer' = <<>>]_vars

\* C19 witness: a failed flush has reduced the threshold, and records are
\* buffered again under it
C19_Witness ==
    /\ state.failedBatches # <<>>
    /\ state.batchSize < InitialBatchSize
    /\ bp = "idle"
    /\ buffer # <<>>

\* C20: while a flush is in flight (processBatch awaits saveContacts, its
\* retries included), _transform accepts no record, no other batch is
\* handed to saveContacts, and the threshold, the batch number and the
\* list of failed batches change only in the step that ends this flush,
\* which leaves the batch number alone and adds at most this batch to the
\* list
C20_OneFlushInFlight ==
    [][Saving =>
         /\ buffer' = buffer
         /\ state'.validCount = state.validCount
         /\ handed' = handed
         /\ batch' = batch
         /\ state'.currentBatch = state.currentBatch
         /\ Saving' =>
              /\ state'.batchSize = state.batchSize
              /\ state'.failedBatches = state.failedBatches
         /\ state'.failedBatches
              \in {state.failedBatches, Append(state.failedBatches, state.currentBatch)}]_vars

\* C20 witness: a flush is in a retry while a validated contact waits in
\* front of BatchProcessor and a rejected row has been counted
C20_Witness ==
    /\ bp = "saving"
    /\ retryCount > 0
    /\ queue # <<>>
    /\ state.invalidCount > 0

\* the contacts accepted as number from + 1 .. from + count of an import
\* whose well-formed rows carry their keys in the order of the file
ContactsInOrder(from, count) == [i \in 1..count |-> FreshContact(from + i)]

\* C21: when import() has returned, the buffer is empty, nothing waits in
\* front of BatchProcessor and the sizes of the batches handed to
\* saveContacts sum to validCount; every batch handed over is not empty, is
\* at most as large as the threshold, and holds the contacts that follow
\* those of the batches before it, in the order of the input
C21_EveryValidRecordFlushedOnce ==
    /\ [](Returned =>
            /\ buffer = <<>>
            /\ queue = <<>>
            /\ SumSeq(handed) = state.validCount)
    /\ [][handed' # handed =>
            /\ Len(handed') = Len(handed) + 1
            /\ Len(batch') = handed'[Len(handed')]
            /\ Len(batch') >= 1
            /\ Len(batch') <= state.batchSize
            /\ batch' = ContactsInOrder(SumSeq(handed), Len(batch'))]_vars

\* C21 witness: an import has returned whose last batch, flushed at the end
\* of the input after a full one, was smaller than the threshold
C21_Witness ==
    /\ Returned
    /\ Len(handed) >= 2
    /\ handed[Len(handed)] < state.batchSize
    /\ handed[1] = InitialBatchSize

----------------------------------------------------------------------------
(* The pause/resume importer: importFromCsv reads the rows in a 'data'     *)
(* handler of the csv parser the file stream is piped into, and pauses the *)
(* file stream while processBatch awaits saveContacts.  The file has the   *)
(* header email,first_name,last_name; its rows reach the parser in chunks  *)
(* of any length, and the parser emits every row of a chunk it was given.  *)

\* rows of the file
MaxPauseRows == 4
\* rows the schema may reject
MaxPauseInvalid == 1
\* largest batch size the importer is constructed with
MaxPauseBatchSize == 3

\* processBatch: Math.max(100, ...)
PauseMinBatchSize == 100

\* a well-formed row without white space, with the k-th key of a series
PlainLine(k) ==
    << <<"a">> \o Digits(k) \o <<"@", "b", ".", "i", "o">>,
       <<"A", "n", "n">>, <<"L", "e", "e">> >>

\* row[name] of the object csv-parser builds without options
RawField(hdrs, line, name) ==
    LET at == {i \in DOMAIN hdrs : hdrs[i] = name /\ i \in DOMAIN line}
    IN  IF at = {} THEN Undefined
        ELSE line[CHOOSE i \in at : \A j \in at : j <= i]

\* identifyColumns: headers.find(header => header.toLowerCase() === name)
FindColumn(hdrs, name) ==
    LET at == {i \in DOMAIN hdrs : ToLowerCase(hdrs[i]) = name}
    IN  IF at = {} THEN Undefined
        ELSE hdrs[CHOOSE i \in at : \A j \in at : i <= j]

\* validateAndCreateContact of the pause/resume importer: the input handed
\* to the schema
PauseSchemaInput(hdrs, line) ==
    [email |-> RawField(hdrs, line, FindColumn(hdrs, sEmail)),
     firstName |-> RawField(hdrs, line, FindColumn(hdrs, sFirstName)),
     lastName |-> IF FindColumn(hdrs, sLastName) # Undefined
                  THEN RawField(hdrs, line, FindColumn(hdrs, sLastName))
                  ELSE Null]

\* the outcomes of a call of saveContacts: it returns, or throws a message
Saved == "saved"
PauseOutcomes == {Saved, TimeoutMessage, ConstraintMessage}

InitPause ==
    /\ \E size \in 2..MaxPauseBatchSize, rows \in 0..MaxPauseRows :
          pr = [running |-> TRUE,
                left |-> rows,
                inParser |-> 0,
                paused |-> FALSE,
                ended |-> FALSE,
                contacts |-> <<>>,
                validCount |-> 0,
                invalidCount |-> 0,
                totalCount |-> 0,
                currentBatch |-> 0,
                batchSize |-> size,
                failedBatches |-> <<>>,
                error |-> NoError,
                flights |-> {},
                passed |-> <<>>,
                resolved |-> 0]
    /\ src = "none"
    /\ fileHeader = HeaderLine
    /\ headers = HeaderLine
    /\ state = InitialState
    /\ buffer = <<>>
    /\ queue = <<>>
    /\ bp = "ready"
    /\ batch = <<>>
    /\ startIdx = 0
    /\ retryCount = 0
    /\ result = NoResult
    /\ linesRead = 1
    /\ fileGood = 0
    /\ fileBad = 0
    /\ handed = <<>>
    /\ committed = {}
    /\ thrown = {}
    /\ faulted = FALSE
    /\ db = EmptyStore
    /\ log = <<>>
    /\ file = AnyFile
    /\ first = NoResult
    /\ http = NoRequest
    /\ tx = NotRunning
    /\ ex = NotRunning

pauseFrame == <<src, fileHeader, headers, state, buffer, queue, bp, batch,
                startIdx, retryCount, linesRead, fileGood, fileBad, handed,
                committed, thrown, file, first, http, tx, ex>>

\* the file stream, flowing, writes its next chunk of rows to the parser
PauseChunk(n) ==
    /\ ~pr.paused
    /\ pr.inParser = 0
    /\ n <= pr.left
    /\ pr' = [pr EXCEPT !.left = @ - n, !.inParser = n]
    /\ UNCHANGED <<result, faulted, db, log>>
    /\ UNCHANGED pauseFrame

\* processBatch of the pause/resume importer up to its await, and
\* saveRemainingContacts up to its await: the batch number is taken and
\* state.contacts is passed to saveContacts
PauseStartFlush(p, final) ==
    [p EXCEPT !.currentBatch = @ + 1,
              !.flights = @ \cup {[batch |-> p.currentBatch + 1,
                                   contacts |-> p.contacts,
                                   final |-> final]},
              !.passed = Append(@, p.contacts)]

\* the 'data' handler: the parser emits the next row of the chunk it holds
PauseData(line) ==
    /\ pr.inParser > 0
    /\ LET input == PauseSchemaInput(headers, line)
           counted == [pr EXCEPT !.inParser = @ - 1, !.totalCount = @ + 1]
       IN  IF SchemaAccepts(input)
           THEN LET pushed == [counted EXCEPT
                                  !.contacts = Append(@, SchemaParse(input)),
                                  !.validCount = @ + 1]
                IN  IF Len(pushed.contacts) >= pushed.batchSize
                    THEN pr' = PauseStartFlush([pushed EXCEPT !.paused = TRUE], FALSE)
                    ELSE pr' = pushed
           ELSE /\ pr.invalidCount < MaxPauseInvalid
                /\ pr' = [counted EXCEPT !.invalidCount = @ + 1]
    /\ UNCHANGED <<result, faulted, db, log>>
    /\ UNCHANGED pauseFrame

\* resolve(...): the promise of importFromCsv takes the first value it is
\* resolved with
PauseResolve(value) ==
    /\ result' = IF result = NoResult THEN value ELSE result

PauseStats(p) ==
    [valid |-> p.validCount, invalid |-> p.invalidCount, total |-> p.totalCount]

\* processBatch from its await on: saveContacts has settled for a batch
\* passed by the 'data' handler
PauseFlushDone(f, outcome) ==
    /\ f \in pr.flights
    /\ ~f.final
    /\ LET caught ==
               IF outcome = Saved THEN pr
               ELSE IF IncludesTimeout(outcome)
               THEN [pr EXCEPT
                        !.failedBatches = Append(@, pr.currentBatch),
                        !.batchSize = Max(PauseMinBatchSize, @ \div 2)]
               ELSE [pr EXCEPT !.error = outcome]
       IN  pr' = [caught EXCEPT !.contacts = <<>>,
                                !.paused = FALSE,
                                !.flights = @ \ {f}]
    /\ IF outcome = Saved
       THEN /\ db' = Upsert(db, f.contacts)
            /\ log' = Append(log, [call |-> f.batch, chunk |-> f.contacts])
            /\ UNCHANGED faulted
       ELSE /\ faulted' = TRUE
            /\ UNCHANGED <<db, log>>
    /\ UNCHANGED result
    /\ UNCHANGED pauseFrame

\* the 'end' handler: finishImport
PauseEnd ==
    /\ ~pr.ended
    /\ ~pr.paused
    /\ pr.left = 0
    /\ pr.inParser = 0
    /\ LET ended == [pr EXCEPT !.ended = TRUE]
           settled == [ended EXCEPT !.resolved = @ + 1]
       IN  IF pr.error # NoError
           THEN /\ pr' = settled
                /\ PauseResolve([success |-> FALSE, error |-> pr.error,
                                 stats |-> PauseStats(pr)])
           ELSE IF Len(pr.contacts) > 0
           THEN /\ pr' = PauseStartFlush(ended, TRUE)
                /\ UNCHANGED result
           ELSE IF pr.validCount = 0
           THEN /\ pr' = settled
                /\ PauseResolve([success |-> FALSE,
                                 error |-> "No valid contacts found in CSV",
                                 stats |-> [PauseStats(pr) EXCEPT !.valid = 0]])
           ELSE /\ pr' = settled
                /\ PauseResolve([success |-> TRUE, stats |-> PauseStats(pr)])
    /\ UNCHANGED <<faulted, db, log>>
    /\ UNCHANGED pauseFrame

\* saveRemainingContacts from its await on: saveContacts has settled for
\* the batch passed by finishImport
PauseFinalDone(f, outcome) ==
    /\ f \in pr.flights
    /\ f.final
    /\ IF outcome = Saved
       THEN /\ pr' = [pr EXCEPT !.flights = @ \ {f}, !.resolved = @ + 1]
            /\ PauseResolve([success |-> TRUE, stats |-> PauseStats(pr)])
            /\ db' = Upsert(db, f.contacts)
            /\ log' = Append(log, [call |-> f.batch, chunk |-> f.contacts])
            /\ UNCHANGED faulted
       ELSE /\ pr' = [pr EXCEPT !.flights = @ \ {f}, !.resolved = @ + 1,
                                !.error = outcome]
            /\ PauseResolve([success |-> FALSE, error |-> outcome,
                             stats |-> PauseStats(pr)])
            /\ faulted' = TRUE
            /\ UNCHANGED <<db, log>>
    /\ UNCHANGED pauseFrame

\* the rows the file can have next
PauseLines == {PlainLine(pr.totalCount + 1), EmptyKeyLine}

NextPause ==
    \/ \E n \in 1..MaxPauseRows : PauseChunk(n)
    \/ \E line \in PauseLines : PauseData(line)
    \/ \E f \in pr.flights, outcome \in PauseOutcomes : PauseFlushDone(f, outcome)
    \/ PauseEnd
    \/ \E f \in pr.flights, outcome \in PauseOutcomes : PauseFinalDone(f, outcome)

SpecPause == InitPause /\ [][NextPause]_vars

\* saveContacts is awaited by processBatch or saveRemainingContacts
PauseInFlight == pr.flights # {}

\* the number of batches passed to saveContacts a contact is part of
TimesPassed(c) ==
    Cardinality({i \in DOMAIN pr.passed : c \in Range(pr.passed[i])})

\* C22: in the pause/resume importer, while a flush is awaiting no row is
\* delivered, no second flush starts and the 'end' handler does not run;
\* and when the import has resolved and no flush is awaiting, the batches
\* passed to saveContacts hold validCount records, no record twice
C22_ProducerSuspendedDuringFlush ==
    /\ [][PauseInFlight =>
            /\ pr'.totalCount = pr.totalCount
            /\ pr'.passed = pr.passed
            /\ pr'.ended = pr.ended]_vars
    /\ []((Returned /\ ~PauseInFlight) =>
            /\ SumSeq([i \in DOMAIN pr.passed |-> Len(pr.passed[i])]) = pr.validCount
            /\ \A i \in DOMAIN pr.passed :
                   \A c \in Range(pr.passed[i]) : TimesPassed(c) = 1)

----------------------------------------------------------------------------
(* One call of saveMany, with saveBatch statement by statement: every      *)
(* await of the call is a step of its own.  batch, startIdx and retryCount are the  *)
(* contacts, startIdx and retryCount of saveMany; tx holds the position in *)
(* saveBatch, the pooled client and the error on its way up, and, as       *)
(* history of the call, the clients it acquired and released, the attempts *)
(* made for the current chunk and the delays waited before them.           *)

RETRY_DELAY_MS == 3000

RECURSIVE Pow2(_)
\* Math.pow(2, k) for a natural number k
Pow2(k) == IF k = 0 THEN 1 ELSE 2 * Pow2(k - 1)

\* a backoff that waits the same time before every retry
RetryDelayFixed(count) == RETRY_DELAY_MS

\* RETRY_DELAY_MS * Math.pow(2, retryCount - 1)
RetryDelay(count) == RETRY_DELAY_MS * Pow2(count - 1)

\* the messages a statement rejects with
SaveMessages == {TimeoutMessage, ConstraintMessage}
\* the messages pool.connect, or a statement on a lost connection, rejects
\* with
ConnectMessages == {TimeoutMessage, ConnectionMessage}

\* no client: the value of client before pool.connect has resolved
NoClient == 0

InitSave ==
    /\ tx = [running |-> TRUE,
             pc |-> "idle",
             client |-> NoClient,
             held |-> {},
             acquired |-> 0,
             released |-> <<>>,
             error |-> NoError,
             rejected |-> NoError,
             delays |-> <<>>,
             attempts |-> 0]
    /\ src = "none"
    /\ fileHeader = NoLine
    /\ headers = <<>>
    /\ state = InitialState
    /\ buffer = <<>>
    /\ queue = <<>>
    /\ bp = "ready"
    /\ batch = <<>>
    /\ startIdx = 0
    /\ retryCount = 0
    /\ result = NoResult
    /\ linesRead = 0
    /\ fileGood = 0
    /\ fileBad = 0
    /\ handed = <<>>
    /\ committed = {}
    /\ thrown = {}
    /\ faulted = FALSE
    /\ db = EmptyStore
    /\ log = <<>>
    /\ file = AnyFile
    /\ first = NoResult
    /\ http = NoRequest
    /\ pr = NotRunning
    /\ ex = NotRunning

saveFrame == <<src, fileHeader, headers, state, buffer, queue, result, linesRead,
               fileGood, fileBad, file, first, http, pr, ex>>

\* saveMany calls saveBatch: the call runs up to its await of pool.connect
CallSaveBatch(t) == [t EXCEPT !.pc = "connect", !.attempts = @ + 1]

\* the loop of saveMany starts on a chunk: retryCount = 0, no delay
StartChunk(t) ==
    CallSaveBatch([t EXCEPT !.attempts = 0, !.delays = <<>>, !.rejected = NoError])

\* saveMany is called
SaveMany(contacts) ==
    /\ bp = "ready"
    /\ handed' = Append(handed, Len(contacts))
    /\ batch' = contacts
    /\ startIdx' = 0
    /\ retryCount' = 0
    /\ IF Len(contacts) = 0
       THEN /\ bp' = "returned"
            /\ committed' = committed \cup {Len(handed) + 1}
            /\ UNCHANGED tx
       ELSE /\ bp' = "direct"
            /\ tx' = StartChunk(tx)
            /\ UNCHANGED committed
    /\ UNCHANGED <<thrown, faulted, db, log>>
    /\ UNCHANGED saveFrame

\* a catch block that gives up one attempt early
CatchGivesUpEarly(t, message) ==
    /\ retryCount' = retryCount + 1
    /\ faulted' = TRUE
    /\ IF retryCount + 1 >= MAX_RETRIES
       THEN /\ tx' = [t EXCEPT !.pc = "idle", !.rejected = message]
            /\ thrown' = thrown \cup {[batch |-> Len(handed), message |-> message]}
            /\ bp' = "threw"
       ELSE /\ tx' = [t EXCEPT !.pc = "delay", !.rejected = message]
            /\ UNCHANGED <<thrown, bp>>

\* saveBatch rejects with message: the catch block of saveMany counts the
\* attempt and either throws the error or goes round the loop, where the
\* retry starts with a delay
CatchInSaveMany(t, message) ==
    /\ retryCount' = retryCount + 1
    /\ faulted' = TRUE
    /\ IF retryCount + 1 > MAX_RETRIES
       THEN /\ tx' = [t EXCEPT !.pc = "idle", !.rejected = message]
            /\ thrown' = thrown \cup {[batch |-> Len(handed), message |-> message]}
            /\ bp' = "threw"
       ELSE /\ tx' = [t EXCEPT !.pc = "delay", !.rejected = message]
            /\ UNCHANGED <<thrown, bp>>

\* the timer of the retry delay fires and saveBatch is called again
DelayElapsed ==
    /\ tx.pc = "delay"
    /\ tx' = CallSaveBatch([tx EXCEPT !.delays = Append(@, RetryDelay(retryCount))])
    /\ UNCHANGED <<bp, batch, startIdx, retryCount, handed, committed, thrown,
                   faulted, db, log>>
    /\ UNCHANGED saveFrame

\* pool.connect resolves with a client
Connected ==
    /\ tx.pc = "connect"
    /\ tx' = [tx EXCEPT !.pc = "begin",
                        !.client = tx.acquired + 1,
                        !.acquired = @ + 1,
                        !.held = @ \cup {tx.acquired + 1}]
    /\ UNCHANGED <<bp, batch, startIdx, retryCount, handed, committed, thrown,
                   faulted, db, log>>
    /\ UNCHANGED saveFrame

\* pool.connect rejects: saveBatch has not entered its try block
ConnectFails(message) ==
    /\ tx.pc = "connect"
    /\ CatchInSaveMany(tx, message)
    /\ UNCHANGED <<batch, startIdx, handed, committed, db, log>>
    /\ UNCHANGED saveFrame

\* BEGIN, and then the INSERT, succeed
StatementDone ==
    /\ tx.pc \in {"begin", "insert"}
    /\ tx.pc = "insert" => ~HasDuplicateKeys(BatchContacts)
    /\ tx' = [tx EXCEPT !.pc = IF @ = "begin" THEN "insert" ELSE "commit"]
    /\ UNCHANGED <<bp, batch, startIdx, retryCount, handed, committed, thrown,
                   faulted, db, log>>
    /\ UNCHANGED saveFrame

\* BEGIN, the INSERT or COMMIT rejects: the catch block of saveBatch issues
\* ROLLBACK
StatementFails(message) ==
    /\ tx.pc \in {"begin", "insert", "commit"}
    /\ message = CardinalityMessage
         => tx.pc = "insert" /\ HasDuplicateKeys(BatchContacts)
    /\ tx' = [tx EXCEPT !.pc = "rollback", !.error = message]
    /\ UNCHANGED <<bp, batch, startIdx, retryCount, handed, committed, thrown,
                   faulted, db, log>>
    /\ UNCHANGED saveFrame

\* finally: client.release()
Release(t) ==
    [t EXCEPT !.client = NoClient,
              !.held = @ \ {t.client},
              !.released = Append(@, t.client)]

\* a saveBatch that releases its client only when the transaction committed
ReleaseOnSuccess(t) ==
    IF t.error = NoError THEN Release(t) ELSE [t EXCEPT !.client = NoClient]

\* saveBatch, finally block
Finally(t) == Release(t)

\* COMMIT succeeds: the chunk is in the table, the client is released,
\* saveBatch returns, and saveMany goes on to the next chunk or returns
Committed ==
    /\ tx.pc = "commit"
    /\ db' = Upsert(db, BatchContacts)
    /\ log' = Append(log, [call |-> Len(handed), chunk |-> BatchContacts])
    /\ LET done == Finally(tx)
       IN  IF startIdx + SUPABASE_BATCH_SIZE < Len(batch)
           THEN /\ startIdx' = startIdx + SUPABASE_BATCH_SIZE
                /\ retryCount' = 0
                /\ tx' = StartChunk(done)
                /\ UNCHANGED <<bp, committed>>
           ELSE /\ committed' = committed \cup {Len(handed)}
                /\ bp' = "returned"
                /\ tx' = [done EXCEPT !.pc = "idle"]
                /\ UNCHANGED <<startIdx, retryCount>>
    /\ UNCHANGED <<batch, handed, thrown, faulted>>
    /\ UNCHANGED saveFrame

\* ROLLBACK succeeds: the client is released and saveBatch rethrows the
\* error of the statement
RolledBack ==
    /\ tx.pc = "rollback"
    /\ CatchInSaveMany([Finally(tx) EXCEPT !.error = NoError], tx.error)
    /\ UNCHANGED <<batch, startIdx, handed, committed, db, log>>
    /\ UNCHANGED saveFrame

\* ROLLBACK rejects inside the catch block: the client is released and
\* saveBatch throws the error of the ROLLBACK
RollbackFails(message) ==
    /\ tx.pc = "rollback"
    /\ CatchInSaveMany([Finally(tx) EXCEPT !.error = NoError], message)
    /\ UNCHANGED <<batch, startIdx, handed, committed, db, log>>
    /\ UNCHANGED saveFrame

\* the batches saveMany is called with
SaveBatches == {<<>>, <<AnnContact>>, <<AnnContact, BobContact>>, BigBatch}

NextSave ==
    \/ \E contacts \in SaveBatches : SaveMany(contacts)
    \/ DelayElapsed
    \/ Connected
    \/ \E message \in ConnectMessages : ConnectFails(message)
    \/ StatementDone
    \/ \E message \in SaveMessages \cup {CardinalityMessage} : StatementFails(message)
    \/ Committed
    \/ RolledBack
    \/ \E message \in ConnectMessages : RollbackFails(message)

\* every await of saveMany settles: the pool answers, a statement succeeds
\* or fails, the timer fires
SpecSave == InitSave /\ [][NextSave]_vars /\ WF_vars(NextSave)

\* saveBatch is running for the current chunk
Attempting == tx.pc \in {"connect", "begin", "insert", "commit", "rollback"}

\* the errors the current call of saveMany has thrown
ThrownByCall == {t \in thrown : t.batch = Len(handed)}

\* C23: every chunk of a call of saveMany is attempted at most
\* MAX_RETRIES + 1 times and committed at most once; an attempt ends in the
\* commit of the chunk, after which the call goes on to the next chunk or
\* returns, or in the delay before attempt n + 1 <= MAX_RETRIES + 1, or,
\* when it was attempt MAX_RETRIES + 1, in saveMany throwing the error this
\* attempt rejected with; and every call returns or throws
C23_AttemptStateMachine ==
    /\ [](/\ tx.attempts <= MAX_RETRIES + 1
          /\ \A i, j \in DOMAIN log : i < j => log[i] # log[j]
          /\ bp = "threw" =>
               /\ tx.attempts = MAX_RETRIES + 1
               /\ ThrownByCall = {[batch |-> Len(handed), message |-> tx.rejected]}
               /\ \A i \in DOMAIN log :
                      log[i].call = Len(handed) => log[i].chunk # BatchContacts)
    /\ [][Attempting =>
            \/ /\ Attempting'
               /\ tx'.attempts = tx.attempts
               /\ startIdx' = startIdx
               /\ log' = log
            \/ /\ log' = Append(log, [call |-> Len(handed), chunk |-> BatchContacts])
               /\ \/ bp' = "returned" /\ startIdx + SUPABASE_BATCH_SIZE >= Len(batch)
                  \/ /\ startIdx' = startIdx + SUPABASE_BATCH_SIZE
                     /\ startIdx' < Len(batch)
                     /\ Attempting'
                     /\ tx'.attempts = 1
            \/ /\ tx'.pc = "delay"
               /\ tx.attempts <= MAX_RETRIES
               /\ retryCount' = tx.attempts
               /\ log' = log
            \/ /\ bp' = "threw"
               /\ tx.attempts = MAX_RETRIES + 1
               /\ log' = log]_vars
    /\ [][tx.pc = "delay" =>
            /\ Attempting'
            /\ tx'.attempts = tx.attempts + 1
            /\ startIdx' = startIdx]_vars
    /\ (bp = "direct" ~> bp \in {"returned", "threw"})

\* C23 witness: a call has thrown after the second chunk of its batch was
\* attempted six times, the first chunk having been committed on a retry
C23_Witness ==
    /\ bp = "threw"
    /\ startIdx = SUPABASE_BATCH_SIZE
    /\ Len(log) = 1
    /\ tx.acquired > MAX_RETRIES + 2

\* C24: when an attempt to write a chunk fails with an error that is
\* neither a timeout nor a loss of the connection, saveMany throws at once:
\* no delay is started and the write is not attempted again
C24_NonTransientNotRetried ==
    [][(retryCount' = retryCount + 1 /\ ~Transient(tx'.rejected)) =>
          /\ bp' = "threw"
          /\ tx'.pc # "delay"
          /\ tx.attempts = 1]_vars

\* the threshold after one reduction
ShrunkOnce(n) == Max(MinBatchSize, ShrinkFloor(n))

\* C25: every retry of a batch write reduces the threshold once, and the
\* commit that follows the retries leaves it reduced: a batch that commits
\* on its third attempt has taken the threshold down twice
C25_RetryShrinksThreshold ==
    [][Saving =>
          /\ retryCount' = retryCount + 1
               => state'.batchSize = ShrunkOnce(state.batchSize)
          /\ (committed' # committed /\ retryCount = 2 /\ state.failedBatches = <<>>
                /\ state.currentBatch < GrowEvery)
               => state'.batchSize = ShrunkOnce(ShrunkOnce(InitialBatchSize))]_vars

\* the delays before the retries 1 to 5 of a chunk, in milliseconds
ExpectedDelays == <<3000, 6000, 12000, 24000, 48000>>

\* C26: the first attempt of a chunk is preceded by no delay and attempt
\* k + 1 by k delays, those before the retries 1 .. k; the delay before
\* retry k is 3000 * 2^(k - 1) ms, more than the one before retry k - 1
C26_BackoffDoubles ==
    /\ (Attempting \/ bp = "threw") => Len(tx.delays) = tx.attempts - 1
    /\ tx.pc = "delay" => Len(tx.delays) = tx.attempts - 1
    /\ Len(tx.delays) <= MAX_RETRIES
    /\ tx.delays = SubSeq(ExpectedDelays, 1, Len(tx.delays))
    /\ \A k \in DOMAIN tx.delays :
          /\ tx.delays[k] = RETRY_DELAY_MS * (2 ^ (k - 1))
          /\ k > 1 => tx.delays[k] > tx.delays[k - 1]

\* C26 witness: the sixth attempt of a chunk is running, after five delays
C26_Witness ==
    /\ Attempting
    /\ tx.attempts = MAX_RETRIES + 1
    /\ Len(tx.delays) = MAX_RETRIES

\* C27: a successful commit changes the threshold exactly when it is the
\* 20th, 40th, ... successful commit of the import, failed batches not
\* counted, and then to min(500, floor(batchSize * 1.1))
C27_GrowsEveryTwentiethSuccess ==
    [][committed' # committed =>
          IF Cardinality(committed') % GrowEvery = 0
          THEN state'.batchSize = Min(MaxBatchSize, GrowFloor(state.batchSize))
          ELSE state'.batchSize = state.batchSize]_vars

\* C28: the step in which a flush fails sets the threshold to
\* max(50, floor(batchSize * 0.7)), which is never more than it was, and no
\* other step lowers the threshold; a flush that commits never lowers it;
\* the batch filled next has the size of the threshold then in force; and
\* from whatever threshold of the band the flush in flight had started, its
\* failure would give max(50, floor(0.7 n)) <= n and its commit n or more
C28_FailureShrinksOnce ==
    /\ [][/\ thrown' # thrown =>
               /\ state'.batchSize = Max(MinBatchSize, ShrinkFloor(state.batchSize))
               /\ state'.batchSize <= state.batchSize
          /\ state'.batchSize < state.batchSize => thrown' # thrown
          /\ committed' # committed => state'.batchSize >= state.batchSize
          /\ (handed' # handed /\ bp' = "saving") => Len(batch') = state.batchSize]_vars
    /\ [](Saving =>
            \A n \in MinBatchSize..MaxBatchSize :
                LET st == [state EXCEPT !.batchSize = n]
                IN  /\ BatchSucceeded(st).batchSize >= n
                    /\ \A message \in ErrorMessages :
                          /\ BatchFailed(st, message).batchSize
                               = Max(MinBatchSize, ShrinkFloor(n))
                          /\ BatchFailed(st, message).batchSize <= n)

\* C28 witness: batch 1 failed, and batch 2 was filled and handed over at
\* the reduced threshold
C28_Witness ==
    /\ state.failedBatches = <<1>>
    /\ Len(handed) >= 2
    /\ handed[2] = ShrunkOnce(InitialBatchSize)
    /\ handed[2] < handed[1]

\* C29: at most one client is checked out of the pool at any time, and it
\* is the client of the saveBatch call in progress; every client ever
\* acquired is either still held or has been released, and none has been
\* released twice; before pool.connect has resolved, during the delay
\* before a retry, between two calls of saveMany and after a call has
\* returned or thrown no client is held
C29_ClientReleasedOnce ==
    /\ Cardinality(tx.held) <= 1
    /\ tx.held = (IF tx.client = NoClient THEN {} ELSE {tx.client})
    /\ Range(tx.released) \cup tx.held = 1..tx.acquired
    /\ Range(tx.released) \cap tx.held = {}
    /\ Cardinality(Range(tx.released)) = Len(tx.released)
    /\ tx.pc \in {"idle", "delay", "connect"} => tx.held = {}
    /\ bp \in {"ready", "returned", "threw"} =>
         tx.pc = "idle" /\ Len(tx.released) = tx.acquired

\* C29 witness: a call has thrown after six attempts that each acquired a
\* client, the last of them ending in a ROLLBACK that failed
C29_Witness ==
    /\ bp = "threw"
    /\ Len(batch) = 1
    /\ tx.acquired = MAX_RETRIES + 1
    /\ tx.rejected = ConnectionMessage
    /\ Len(tx.released) = tx.acquired

----------------------------------------------------------------------------
(* The older executors of the repository: saveMany writes a whole batch in *)
(* one transaction, cut into chunks by the number of statement parameters. *)
(* In the version with processBatches the transaction is retried with      *)
(* smaller chunks; the version with one INSERT per chunk has no retry.  A  *)
(* batch is given by its length and a chunk by the positions it covers,    *)
(* contacts.slice(from, to).                                               *)

\* full chunks a batch of the executor may be made of
MaxExecutorChunks == 3

PARAMS_PER_CONTACT == 3
maxRetries == 3

\* the two executors
WithProcessBatches == "processBatches"
WithSingleInsert == "singleInsert"
Executors == {WithProcessBatches, WithSingleInsert}

\* const MAX_PARAMS
MAX_PARAMS(version) == IF version = WithProcessBatches THEN 32767 ELSE 65535

\* Math.floor(MAX_PARAMS / PARAMS_PER_CONTACT)
MAX_CONTACTS_PER_INSERT(version) == MAX_PARAMS(version) \div PARAMS_PER_CONTACT

\* retryCount > 0 ? Math.pow(2, retryCount) : 1
batchDivisor(count) == IF count > 0 THEN Pow2(count) ELSE 1

\* chunks that keep their size when the transaction is retried
ChunkSizeNotHalved(version, count) == MAX_CONTACTS_PER_INSERT(version)

\* the number of contacts of a chunk: processBatches divides it by
\* batchDivisor, the other executor is never retried
ChunkSize(version, count) ==
    IF version = WithProcessBatches
    THEN MAX_CONTACTS_PER_INSERT(version) \div batchDivisor(count)
    ELSE MAX_CONTACTS_PER_INSERT(version)

\* a message of pg that names the connection in lower case
ConnectionTimeoutMessage == "Connection terminated due to connection timeout"
\* error.message.includes("connection")
IncludesConnection(message) == message = ConnectionTimeoutMessage

\* the messages a statement of the transaction rejects with
ExecutorMessages ==
    {TimeoutMessage, ConnectionMessage, ConnectionTimeoutMessage, ConstraintMessage}

\* shouldRetry
shouldRetry(message, currentRetry) ==
    /\ currentRetry < maxRetries
    /\ IncludesTimeout(message) \/ IncludesConnection(message)

\* the message saveBatch throws with
TooManyMessage == "too many operations failed in batch"
\* what PostgreSQL answers to every statement but ROLLBACK and COMMIT once a
\* statement of the open transaction has failed
AbortedMessage ==
    "current transaction is aborted, commands ignored until end of transaction block"

\* a chunk that fails as soon as one of its operations rejects
AnyRejected(rejected, length) == rejected > 0

\* rejected.length > batchContacts.length / 2
TooManyRejected(rejected, length) == 2 * rejected > length

\* how many of the EXECUTEs of a chunk reject.  The statements run one
\* after the other on the client of the transaction, so they are the last
\* ones of the chunk: the first one fails by itself and those behind it
\* because the transaction is aborted; in a transaction already aborted
\* all of them reject.  The INSERT of the other executor is one statement,
\* whose failure is TransactionFails.
Rejections(version, length, aborted) ==
    IF version = WithSingleInsert THEN {0}
    ELSE IF aborted THEN {length}
    ELSE {0, 1, length \div 2, length \div 2 + 1, length} \cap (0..length)

\* the lengths of the batches: a few records, and around every multiple of
\* every chunk size
BatchLengths ==
    {n \in (2..4) \cup
           UNION {{m * ChunkSize(v, r) - 1, m * ChunkSize(v, r), m * ChunkSize(v, r) + 1} :
                    v \in Executors, r \in 0..maxRetries, m \in 0..MaxExecutorChunks} :
       n >= 0}

\* saveMany has been called with a batch of n contacts: none, and it has
\* returned; otherwise the transaction is open and the loop over the
\* chunks is about to start
InitExecutor ==
    /\ \E version \in Executors, n \in BatchLengths :
          ex = [running |-> TRUE,
                version |-> version,
                total |-> n,
                retries |-> 0,
                i |-> 0,
                pc |-> IF n = 0 THEN "returned" ELSE "chunks",
                chunks |-> <<>>,
                stored |-> <<>>,
                aborted |-> FALSE,
                settled |-> <<>>,
                error |-> ""]
    /\ src = "none"
    /\ fileHeader = NoLine
    /\ headers = <<>>
    /\ state = InitialState
    /\ buffer = <<>>
    /\ queue = <<>>
    /\ bp = "ready"
    /\ batch = <<>>
    /\ startIdx = 0
    /\ retryCount = 0
    /\ result = NoResult
    /\ linesRead = 0
    /\ fileGood = 0
    /\ fileBad = 0
    /\ handed = <<>>
    /\ committed = {}
    /\ thrown = {}
    /\ faulted = FALSE
    /\ db = EmptyStore
    /\ log = <<>>
    /\ file = AnyFile
    /\ first = NoResult
    /\ http = NoRequest
    /\ pr = NotRunning
    /\ tx = NotRunning

executorFrame == <<src, fileHeader, headers, state, buffer, queue, bp, batch,
                   startIdx, retryCount, result, linesRead, fileGood, fileBad,
                   handed, committed, thrown, faulted, db, log, file, first,
                   http, pr, tx>>

\* the catch block of saveMany: ROLLBACK, whose own failure is only logged;
\* then the transaction is started again when shouldRetry says so, and
\* otherwise the error is thrown to the caller
Caught(e, message) ==
    IF e.version = WithProcessBatches /\ shouldRetry(message, e.retries)
    THEN [e EXCEPT !.chunks = <<>>, !.i = 0, !.retries = @ + 1,
                   !.aborted = FALSE, !.settled = <<>>]
    ELSE [e EXCEPT !.chunks = <<>>, !.pc = "threw", !.error = message]

\* one round of the loop over the chunks: contacts.slice(i, i + batchSize)
\* is written inside the open transaction.  saveBatch waits until every
\* EXECUTE of the chunk has settled and throws when too many rejected;
\* otherwise the loop goes on
WriteChunk ==
    /\ ex.pc = "chunks"
    /\ ex.i < ex.total
    /\ LET batchSize == ChunkSize(ex.version, ex.retries)
           to == Min(ex.i + batchSize, ex.total)
       IN  \E rejected \in Rejections(ex.version, to - ex.i, ex.aborted) :
             LET chunk == [from |-> ex.i,
                           to |-> to,
                           attempt |-> ex.retries,
                           fulfilled |-> (to - ex.i) - rejected,
                           rejected |-> rejected]
                 settled == [ex EXCEPT !.settled = Append(@, chunk)]
             IN  IF TooManyRejected(rejected, to - ex.i)
                 THEN ex' = Caught(settled, TooManyMessage)
                 ELSE ex' = [settled EXCEPT !.chunks = Append(@, chunk),
                                            !.i = @ + batchSize,
                                            !.aborted = @ \/ rejected > 0]
    /\ UNCHANGED executorFrame

\* a COMMIT that is reached although a statement of the transaction failed
CommitAbortedTransaction ==
    /\ ex.pc = "chunks"
    /\ ex.i >= ex.total
    /\ ex' = [ex EXCEPT !.pc = "returned", !.stored = ex.chunks]
    /\ UNCHANGED executorFrame


\* the loop has ended in a transaction without a failed statement, and
\* DEALLOCATE and COMMIT succeed: what the transaction wrote is in the
\* table, and saveMany returns
CommitTransaction ==
    /\ ex.pc = "chunks"
    /\ ex.i >= ex.total
    /\ ~ex.aborted
    /\ ex' = [ex EXCEPT !.pc = "returned", !.stored = ex.chunks]
    /\ UNCHANGED executorFrame

\* the loop has ended in a transaction in which an EXECUTE had failed:
\* DEALLOCATE is rejected
DeallocateFails ==
    /\ ex.pc = "chunks"
    /\ ex.i >= ex.total
    /\ ex.aborted
    /\ ex' = Caught(ex, AbortedMessage)
    /\ UNCHANGED executorFrame

\* BEGIN, PREPARE, the INSERT of a chunk, DEALLOCATE or COMMIT rejects: the
\* transaction is rolled back; it is started again in a new transaction
\* when shouldRetry says so, otherwise saveMany throws
TransactionFails(message) ==
    /\ ex.pc = "chunks"
    /\ ex' = Caught(ex, message)
    /\ UNCHANGED executorFrame

NextExecutor ==
    \/ WriteChunk
    \/ CommitTransaction
    \/ DeallocateFails
    \/ \E message \in ExecutorMessages : TransactionFails(message)

SpecExecutor == InitExecutor /\ [][NextExecutor]_vars

\* the number of contacts of a chunk
Size(chunk) == chunk.to - chunk.from

\* the chunks cover the positions 0 .. upTo of the batch in order, each
\* chunk starting where the one before it ends
CoversInOrder(chunks, upTo) ==
    /\ \A k \in DOMAIN chunks :
          chunks[k].from = (IF k = 1 THEN 0 ELSE chunks[k - 1].to)
    /\ upTo = (IF chunks = <<>> THEN 0 ELSE chunks[Len(chunks)].to)

C31_MajorityOfRejectionsFailsBatch ==
    /\ [](/\ \A k \in DOMAIN ex.settled :
                ex.settled[k].fulfilled + ex.settled[k].rejected = Size(ex.settled[k])
          /\ \A k \in DOMAIN ex.chunks :
                2 * ex.chunks[k].rejected <= Size(ex.chunks[k])
          /\ (ex.pc = "threw" /\ ex.error = TooManyMessage) =>
                /\ ex.settled # <<>>
                /\ 2 * ex.settled[Len(ex.settled)].rejected
                      > Size(ex.settled[Len(ex.settled)])
                /\ ex.chunks = <<>>
                /\ ex.stored = <<>>)
    /\ [][/\ (ex.settled' # ex.settled /\ ex.settled' # <<>>) =>
               LET chunk == ex.settled'[Len(ex.settled')]
               IN  /\ ex.settled' = Append(ex.settled, chunk)
                   /\ chunk.from = ex.i
                   /\ IF 2 * chunk.rejected > Size(chunk)
                      THEN /\ ex'.pc = "threw"
                           /\ ex'.error = TooManyMessage
                           /\ ex'.chunks = <<>>
                           /\ ex'.stored = <<>>
                           /\ ex'.retries = ex.retries
                      ELSE /\ ex'.pc = "chunks"
                           /\ ex'.chunks = Append(ex.chunks, chunk)
                           /\ ex'.i = chunk.from + ChunkSize(ex.version, ex.retries)
          /\ ex.pc = "threw" => ex' = ex]_vars

\* C31 witness: exactly half of the 10922 operations of the first chunk
\* rejected and the loop went on to the second chunk, where the only
\* operation rejected and the batch failed
C31_Witness ==
    /\ ex.pc = "threw"
    /\ ex.error = TooManyMessage
    /\ Len(ex.settled) = 2
    /\ Size(ex.settled[1]) = 10922
    /\ ex.settled[1].rejected = 5461
    /\ ex.settled[2].rejected = 1
    /\ ex.stored = <<>>

\* C32: saveMany returns only when every record of the batch was written
\* by a fulfilled operation of the transaction it committed: the chunks
\* stored cover the batch in order and none of their operations rejected.
\* A transaction in which an operation rejected is never committed: the
\* call throws, or starts the transaction again from the first record.
C32_RejectedRecordsReported ==
    /\ [](ex.pc = "returned" =>
            /\ CoversInOrder(ex.stored, ex.total)
            /\ \A k \in DOMAIN ex.stored :
                  /\ ex.stored[k].rejected = 0
                  /\ ex.stored[k].fulfilled = Size(ex.stored[k]))
    /\ [][(\E k \in DOMAIN ex.settled : ex.settled[k].rejected > 0) =>
              /\ ex'.pc # "returned"
              /\ ex'.stored = <<>>
              /\ ex'.pc = "chunks" =>
                   \/ ex'.retries = ex.retries
                   \/ ex'.chunks = <<>> /\ ex'.i = 0 /\ ex'.settled = <<>>]_vars

\* C32 witness: one of the four operations of a batch rejected, saveBatch
\* let the chunk pass, and saveMany threw the error of DEALLOCATE
C32_Witness ==
    /\ ex.pc = "threw"
    /\ ex.total = 4
    /\ ex.error = AbortedMessage
    /\ Len(ex.settled) = 1
    /\ ex.settled[1].rejected = 1
    /\ ex.settled[1].fulfilled = 3
    /\ ex.stored = <<>>

\* C33: the batch number is taken when a flush starts and is one more than
\* the number before, the first being 1, and it changes at no other time:
\* state.currentBatch is the number of flushes started.  state.failedBatches
\* is strictly increasing, has no number outside 1..currentBatch, and holds
\* exactly the numbers of the batches whose saveContacts call threw.
C33_BatchNumbersCountFlushes ==
    /\ [](/\ state.currentBatch = Len(handed)
          /\ \A k \in DOMAIN state.failedBatches :
                /\ state.failedBatches[k] \in 1..state.currentBatch
                /\ k > 1 => state.failedBatches[k - 1] < state.failedBatches[k]
          /\ Range(state.failedBatches) = {t.batch : t \in thrown})
    /\ [][/\ handed' # handed =>
               /\ state'.currentBatch = state.currentBatch + 1
               /\ Len(handed') = Len(handed) + 1
          /\ state'.currentBatch # state.currentBatch => handed' # handed
          /\ state'.failedBatches # state.failedBatches =>
               /\ state'.failedBatches = Append(state.failedBatches, state.currentBatch)
               /\ state'.currentBatch = state.currentBatch]_vars

\* C33 witness: of three flushes the first and the third committed and the
\* second failed
C33_Witness ==
    /\ state.currentBatch = 3
    /\ state.failedBatches = <<2>>
    /\ committed = {1, 3}

\* C34: every batch handed to saveMany by the importer has at least 1 and
\* at most 500 records, the threshold never being above the chunk size of
\* saveMany; so the first slice of saveMany is the whole batch, and a
\* transaction that commits writes all of it: the commits of an import are
\* whole batches, at most one per batch, after which the flush is over
C34_BatchIsOneChunk ==
    /\ [](/\ state.batchSize <= SUPABASE_BATCH_SIZE
          /\ \A k \in DOMAIN handed : handed[k] \in 1..SUPABASE_BATCH_SIZE
          /\ Saving => /\ startIdx = 0
                       /\ BatchContacts = batch
                       /\ Len(batch) = handed[state.currentBatch]
          /\ \A i \in DOMAIN log :
                /\ Len(log[i].chunk) = handed[log[i].call]
                /\ log[i].call \in committed
                /\ \A j \in DOMAIN log : log[j].call = log[i].call => j = i)
    /\ [][log' # log =>
            /\ Saving /\ ~Saving'
            /\ log' = Append(log, [call |-> state.currentBatch, chunk |-> batch])
            /\ \A c \in Range(batch) : c \in db']_vars

\* C34 witness: a batch of 100 records and, after a failed one, a batch at
\* the reduced threshold of 70 have each been committed whole
C34_Witness ==
    /\ Len(log) = 2
    /\ Len(log[1].chunk) = InitialBatchSize
    /\ Len(log[2].chunk) = ShrunkOnce(InitialBatchSize)
    /\ log[2].call = 3
    /\ state.failedBatches = <<2>>

\* C35: when a statement of saveBatch has failed, the error that saveBatch
\* throws to the retry loop of saveMany, and the one saveMany throws to its
\* caller when the retries are used up, is the error of that statement,
\* whether the ROLLBACK issued in the catch block succeeds or fails; and
\* the client is released in both cases
C35_OriginalErrorSurvivesRollback ==
    [][(tx.running /\ tx.pc = "rollback" /\ tx' # tx) =>
          /\ tx'.rejected = tx.error
          /\ tx.client \notin tx'.held
          /\ tx'.released = Append(tx.released, tx.client)
          /\ thrown' # thrown =>
               thrown' = thrown \cup {[batch |-> Len(handed), message |-> tx.error]}]_vars

----------------------------------------------------------------------------
(* The validator on rows that probe the schema: the data parser stands     *)
(* past its header line, email,first_name,last_name or email,first_name,   *)
(* and the file goes on with a few rows of that many cells and of distinct *)
(* keys, which are validated, buffered, flushed at the end of the input    *)
(* and written.                                                            *)

\* rows of the file after the header
MaxSchemaRows == 3

ShortHeaderLine == <<sEmail, sFirstName>>

\* rows of three cells: white space around the key and the names, a first
\* name of white space only, an empty one, a last name that is empty or of
\* white space only, a key of white space only, and values with a quote
\* or with the letters of an SQL keyword
PaddedLine ==
    << <<" ", "K", "a", "y", "@", "B", ".", "i", "o", " ">>,
       <<" ", "K", "a", "y", "\t">>, <<" ", "L", "e", "e", " ">> >>
BlankNameLine == << <<"b", "@", "b", ".", "i", "o">>, <<" ", " ">>, <<"L", "e", "e">> >>
EmptyNameLine == << <<"c", "@", "b", ".", "i", "o">>, <<>>, <<"L", "e", "e">> >>
NoLastNameLine == << <<"d", "@", "b", ".", "i", "o">>, <<"D", "e", "e">>, <<>> >>
BlankLastNameLine == << <<"e", "@", "b", ".", "i", "o">>, <<"E", "v", "e">>, <<" ", "\t">> >>
BlankKeyLine == << <<" ", " ">>, <<"F", "a", "y">>, <<"L", "e", "e">> >>
QuoteLine ==
    << <<"g", "@", "b", ".", "i", "o">>, <<"G", "u", "s">>,
       <<"O", "'", "H", "a", "r", "a">> >>
KeywordLine ==
    << <<"h", "@", "b", ".", "i", "o">>, <<"W", "a", "l", "t", "e", "r">>,
       <<"L", "e", "e">> >>
KeywordKeyLine ==
    << <<"D", "r", "o", "p", "@", "b", ".", "i", "o">>, <<"I", "a", "n">>,
       <<"L", "e", "e">> >>
\* rows of two cells
ShortBlankNameLine == << <<"j", "@", "b", ".", "i", "o">>, <<"\t">> >>

SchemaLines ==
    {PaddedLine, BlankNameLine, EmptyNameLine, NoLastNameLine, BlankLastNameLine,
     BlankKeyLine, QuoteLine, KeywordLine, KeywordKeyLine, ShortLine,
     ShortBlankNameLine}

\* the sequences of n different elements of S
DistinctSeqs(S, n) == {f \in SeqsOfLen(S, n) : Cardinality(Range(f)) = n}

\* the files: the header in the first three lines, as in InitLong, and
\* rows with as many cells as the header
SchemaFiles ==
    UNION {{<<h, h, h>> \o rows :
              rows \in DistinctSeqs({l \in SchemaLines : Len(l) = Len(h)}, n)} :
           h \in {HeaderLine, ShortHeaderLine}, n \in 1..MaxSchemaRows}

InitSchema ==
    /\ file \in SchemaFiles
    /\ src = "rows"
    /\ fileHeader = file[1]
    /\ headers = file[3]
    /\ state = InitialState
    /\ buffer = <<>>
    /\ queue = <<>>
    /\ bp = "idle"
    /\ batch = <<>>
    /\ startIdx = 0
    /\ retryCount = 0
    /\ result = NoResult
    /\ linesRead = 3
    /\ fileGood = 0
    /\ fileBad = 2
    /\ handed = <<>>
    /\ committed = {}
    /\ thrown = {}
    /\ faulted = FALSE
    /\ db = EmptyStore
    /\ log = <<>>
    /\ first = NoResult
    /\ http = NoRequest
    /\ pr = NotRunning
    /\ tx = NotRunning
    /\ ex = NotRunning

NextSchema ==
    \/ \E line \in NextLines : ValidatorAccept(line)
    \/ \E line \in NextLines : ValidatorReject(line)
    \/ EndOfInput
    \/ Flush
    \/ WriteSucceeds
    \/ Return

SpecSchema == InitSchema /\ [][NextSchema]_vars

\* the row the validator is given next
NextRow == file[linesRead + 1]

\* the cell of a row under the header called name, as the file has it
Cell(line, name) ==
    IF \E i \in DOMAIN headers : headers[i] = name
    THEN line[CHOOSE i \in DOMAIN headers : headers[i] = name]
    ELSE Undefined

\* the contacts the importer holds or has stored
Held == Range(buffer) \cup Range(queue) \cup Range(batch) \cup db

SQL_INJECTION_PATTERN ==
    {<<"'">>, <<"\"">>, <<";">>, <<"-", "-">>, <<"/", "*">>, <<"*", "/">>,
     <<"@", "@">>,
     <<"e", "x", "e", "c">>, <<"e", "x", "e", "c", "u", "t", "e">>,
     <<"i", "n", "s", "e", "r", "t">>, <<"u", "p", "d", "a", "t", "e">>,
     <<"d", "e", "l", "e", "t", "e">>, <<"d", "r", "o", "p">>,
     <<"a", "l", "t", "e", "r">>}

\* SQL_INJECTION_PATTERN.test(val), the expression having the flag i
PatternTest(val) ==
    \E w \in SQL_INJECTION_PATTERN :
       \E i \in 1..(Len(val) - Len(w) + 1) :
          SubSeq(ToLowerCase(val), i, i + Len(w) - 1) = w

\* a value of a row or of a contact that the denylist names
Denylisted(value) == value \notin {Undefined, Null} /\ PatternTest(value)

\* C37: no contact that is buffered, handed over in a batch or stored has a
\* key, a first name or a last name that matches the denylist, and a row in
\* which one of the three cells matches it is counted invalid and gives no
\* contact
C37_DenylistedRowsRejected ==
    /\ [](\A c \in Held :
             ~Denylisted(c.email) /\ ~Denylisted(c.firstName) /\ ~Denylisted(c.lastName))
    /\ [][(/\ linesRead' # linesRead
           /\ \/ Denylisted(Cell(NextRow, sEmail))
              \/ Denylisted(Cell(NextRow, sFirstName))
              \/ Denylisted(Cell(NextRow, sLastName))) =>
            /\ state'.invalidCount = state.invalidCount + 1
            /\ buffer' = buffer]_vars

----------------------------------------------------------------------------
(* POST /contacts/upload: the 'file' handler of uploadContacts has set the *)
(* timer of the notice and awaits import() on the uploaded file, a file of *)
(* SchemaFiles.  Time is not measured: the timer may fire at any moment    *)
(* until it is cleared.                                                    *)

\* what the timer writes to the response
ProcessingNotice == "processing"

InitUpload ==
    /\ http = [upload |-> TRUE,
               pc |-> "importing",
               timer |-> "armed",
               headersSent |-> FALSE,
               status |-> 0,
               written |-> <<>>,
               body |-> NoResult,
               ended |-> FALSE]
    /\ file \in SchemaFiles
    /\ src = "rows"
    /\ fileHeader = file[1]
    /\ headers = file[3]
    /\ state = InitialState
    /\ buffer = <<>>
    /\ queue = <<>>
    /\ bp = "idle"
    /\ batch = <<>>
    /\ startIdx = 0
    /\ retryCount = 0
    /\ result = NoResult
    /\ linesRead = 3
    /\ fileGood = 0
    /\ fileBad = 2
    /\ handed = <<>>
    /\ committed = {}
    /\ thrown = {}
    /\ faulted = FALSE
    /\ db = EmptyStore
    /\ log = <<>>
    /\ first = NoResult
    /\ pr = NotRunning
    /\ tx = NotRunning
    /\ ex = NotRunning

uploadFrame == <<src, fileHeader, headers, state, buffer, queue, bp, batch,
                 startIdx, retryCount, result, linesRead, fileGood, fileBad,
                 handed, committed, thrown, faulted, db, log, file, first,
                 pr, tx, ex>>

\* the callback of setTimeout(..., 10000): res.write sends the status line
\* and the headers of the response, status 200, and the notice as the first
\* part of the body.  It runs while import() is pending: its continuation
\* clears the timer as soon as the promise has resolved
StallTimeout ==
    /\ http.timer = "armed"
    /\ result = NoResult
    /\ http' = [http EXCEPT !.timer = "fired",
                            !.headersSent = TRUE,
                            !.status = IF http.headersSent THEN @ ELSE 200,
                            !.written = Append(@, ProcessingNotice)]
    /\ UNCHANGED uploadFrame

\* clearTimeout(processingTimeout)
ClearTimeout(h) == [h EXCEPT !.timer = IF @ = "armed" THEN "cleared" ELSE @]

\* res.status(code).json(body): json sets Content-Type before it sends, and
\* setting a header throws once the headers have been sent
Json(h, code, body) ==
    IF h.headersSent
    THEN [h EXCEPT !.pc = "threw"]
    ELSE [h EXCEPT !.headersSent = TRUE, !.status = code, !.body = body,
                   !.ended = TRUE, !.pc = "done"]

\* import() has resolved: the timer is cleared and the result is sent, with
\* status 400 without success and 200 with it.  When json throws, the catch
\* block clears the timer again and calls res.status(500).json, which
\* throws as well: the promise of the handler rejects and the response is
\* left as it is
ImportSettled ==
    /\ http.pc = "importing"
    /\ result # NoResult
    /\ LET cleared == ClearTimeout(http)
           sent == IF ~result.success
                   THEN Json(cleared, 400, [stats |-> result.stats])
                   ELSE Json(cleared, 200, [stats |-> result.stats])
       IN  IF sent.pc = "threw"
           THEN http' = [Json(ClearTimeout(sent), 500, [stats |-> NoResult])
                           EXCEPT !.pc = IF @ = "threw" THEN "rejected" ELSE @]
           ELSE http' = sent
    /\ UNCHANGED uploadFrame

NextUpload ==
    \/ \E line \in NextLines : ValidatorAccept(line)
    \/ \E line \in NextLines : ValidatorReject(line)
    \/ EndOfInput
    \/ Flush
    \/ WriteSucceeds
    \/ Return
    \/ StallTimeout
    \/ ImportSettled

SpecUpload == InitUpload /\ [][NextUpload]_vars

\* the handler of the upload has run to its end
HandlerOver == http.pc \in {"done", "rejected"}

\* C38: when the handler of an upload is over, the response has been ended
\* with one final body, which carries the stats of the result of import()
\* under the status of that result, whether or not the notice had been
\* written before; the notice is written at most once, and nothing is
\* written to a response that has its final body
C38_OneFinalOutcome ==
    /\ [](/\ HandlerOver =>
               /\ http.ended
               /\ http.body = [stats |-> result.stats]
               /\ http.written = <<>> =>
                     http.status = (IF result.success THEN 200 ELSE 400)
          /\ Len(http.written) <= 1)
    /\ [][http.ended => http' = http]_vars

====
